---- MODULE Spec2Model ----
(***************************************************************************)
(* A model of the request execution and response classification pipeline  *)
(* of the DAM SDK (dam_sdk/client.py, dam_sdk/async_client.py).           *)
(*                                                                         *)
(* Python values are written as the string of their literal: "None",      *)
(* "''" (the empty str), "'denied'", "0".  A dict is a function from its   *)
(* keys to such literals, so that dict.get and `in` are what Python does.  *)
(*                                                                         *)
(* Four specifications share the variables:                                *)
(*   Spec         one call at a time, from its files to its outcome        *)
(*   SessionSpec  one AsyncDAMClient and its session, used by tasks        *)
(*   BuildSpec    the construction of a client and of the request it sends *)
(*   PureSpec     the functions of data of models.py, utils.py, client.py  *)
(***************************************************************************)
EXTENDS Integers, Sequences, FiniteSets, TLC

VARIABLES
    pc,            \* "idle", "sync_request", "async_request", "done"
    client,        \* which entry point the call in progress uses
    op,            \* the operation called
    max_retries,   \* the max_retries the sync client was constructed with
    retries_left,  \* what is left of the transport's retry budget
    sent,          \* HTTP requests sent by the call so far
    response,      \* the response the call ended with, if any
    transport_exc, \* the exception the transport raised, if any
    outcome,       \* what the call returned or raised
    files,         \* the file arguments of an upload
    handles,       \* the file handle behind each file argument
    session,       \* AsyncDAMClient.session: the id of a session, or NoSession
    created,       \* how many sessions the async client has created
    closed,        \* the ids of the sessions that were closed
    task,          \* the tasks that use one AsyncDAMClient: where each stands
    overlap,       \* whether two of those tasks were ever under way together
    config,        \* the arguments a client was constructed with
    built,         \* the HTTP request an operation of that client has built
    call,          \* a function of the SDK and the argument it is called with
    result         \* what that call returned or raised, and its argument afterwards

\* the state of one call and its request
callvars == <<pc, client, op, max_retries, retries_left, sent, response, transport_exc,
              outcome, files, handles>>

\* the state of an AsyncDAMClient shared by tasks
sessvars == <<session, created, closed, task, overlap>>

\* the state of request construction
buildvars == <<config, built>>

\* the state of a call of one of the SDK's functions of data
purevars == <<call, result>>

vars == <<callvars, sessvars, buildvars, purevars>>

(* ---------------------------------------------------------------------- *)
(* Bounds                                                                  *)
(* ---------------------------------------------------------------------- *)

\* largest max_retries a client of the model is constructed with
MaxRetriesBound == 2

\* the longest list of files given to upload_multiple_files
MaxFiles == 2

\* the number of tasks that share one AsyncDAMClient
NumTasks == 3

\* the longest base URL a client is constructed with, in characters
MaxBaseLen == 3
\* keys of a dict of query parameters
MaxParams == 3
\* characters of a file name
MaxNameLen == 3
\* elements of the data array of a response
MaxItems == 2

(* ---------------------------------------------------------------------- *)
(* Python values                                                           *)
(* ---------------------------------------------------------------------- *)

None == "None"

\* the values the message field and the error field of a response body take
MessageValues == {"None", "''", "'denied'"}
ErrorValues == {"0", "'boom'"}
FieldValues(key) == IF key = "message" THEN MessageValues ELSE ErrorValues

\* bool(v) of a Python value: None, '', 0, False, [] and {} are falsy
Truthy(v) == v \notin {"None", "''", "0", "False", "[]", "{}"}

\* a or b
PyOr(a, b) == IF Truthy(a) THEN a ELSE b

EmptyDict == [k \in {} |-> None]

\* d.get(key): the value under key, None when the key is absent
DictGet(d, key) == IF key \in DOMAIN d THEN d[key] ELSE None

(* ---------------------------------------------------------------------- *)
(* Responses                                                               *)
(* ---------------------------------------------------------------------- *)

\* a JSON document that is an object with any of the fields message, error
JsonObjects ==
    { [type |-> "dict", items |-> f, literal |-> ""] :
        f \in UNION { { g \in [K -> MessageValues \cup ErrorValues] :
                            \A k \in K : g[k] \in FieldValues(k) } :
                        K \in SUBSET {"message", "error"} } }

\* a JSON document that is not an object: array, string, number, null
JsonNonObjects ==
    { [type |-> "list",     items |-> EmptyDict, literal |-> "[1, 2]"],
      [type |-> "str",      items |-> EmptyDict, literal |-> "'oops'"],
      [type |-> "int",      items |-> EmptyDict, literal |-> "7"],
      [type |-> "NoneType", items |-> EmptyDict, literal |-> "None"] }

NoDoc == [type |-> "", items |-> EmptyDict, literal |-> ""]

\* a response body on the wire: a JSON text (doc is what it parses to) or a
\* text that is not JSON (the empty body, or plain text)
Bodies ==
    { [is_json |-> TRUE, text |-> "<json>", doc |-> d] : d \in JsonObjects \cup JsonNonObjects }
    \cup { [is_json |-> FALSE, text |-> t, doc |-> NoDoc] : t \in {"", "Bad Gateway"} }

\* the statuses a server answers with: the success status, statuses with an
\* error class of their own, other 2xx/3xx/4xx statuses, and every 5xx
StatusCodes ==
    {200, 201, 204, 302, 400, 401, 403, 404, 408, 413, 422, 429} \cup (500..599)

NoBody == [is_json |-> FALSE, text |-> "", doc |-> NoDoc]
NoResponse ==
    [status_code |-> 0, body |-> NoBody, json_content_type |-> TRUE, retry_after |-> FALSE]

\* json_content_type: the Content-Type header says application/json
\* retry_after: the response has a Retry-After header
Response(s, b, ct) ==
    [status_code |-> s, body |-> b, json_content_type |-> ct, retry_after |-> FALSE]

\* the response with a Retry-After header, or without
WithRetryAfter(r, ra) == [r EXCEPT !.retry_after = ra]

(* ---------------------------------------------------------------------- *)
(* Outcomes: what a call returns or raises                                 *)
(* ---------------------------------------------------------------------- *)

\* the classes deriving from DAMError that the pipeline raises
DAMErrorKinds ==
    {"DAMError", "AuthenticationError", "AuthorizationError", "NotFoundError",
     "ValidationError", "RateLimitError", "FileTooLargeError", "NetworkError",
     "TimeoutError", "ServerError"}

NoOutcome ==
    [kind |-> "none", exc |-> "", fmt |-> "", status |-> 0, error_message |-> "",
     value |-> NoDoc, status_code |-> 0, response_data |-> NoDoc,
     cause |-> "None", context |-> "None"]

\* return value
Returned(v) == [NoOutcome EXCEPT !.kind = "return", !.value = v]

\* raise exc(message): the message is the template fmt filled with the status
\* and the extracted error message
Raised(exc, fmt, s, msg) ==
    [NoOutcome EXCEPT !.kind = "raise", !.exc = exc, !.fmt = fmt,
                      !.status = s, !.error_message = msg]

(* ---------------------------------------------------------------------- *)
(* DAMClient._handle_response (client.py 122-154)                          *)
(* ---------------------------------------------------------------------- *)

\* str literal of a text
PyStr(t) == "'" \o t \o "'"

\* {'message': v}
MessageEnvelope(v) == [type |-> "dict", items |-> [k \in {"message"} |-> v], literal |-> ""]

\* try: response.json()  except ValueError: {'message': response.text or 'Unknown error'}
ParseBody(r) ==
    IF r.body.is_json
    THEN r.body.doc
    ELSE MessageEnvelope(PyOr(PyStr(r.body.text), "'Unknown error'"))

\* ErrorMessage with the two fields looked up in the other order
ErrorMessage_ErrorFirst(response_data) ==
    PyOr(DictGet(response_data.items, "error"),
         PyOr(DictGet(response_data.items, "message"), "'Unknown error'"))

\* response_data.get('message') or response_data.get('error') or 'Unknown error'
ErrorMessage(response_data) ==
    PyOr(DictGet(response_data.items, "message"),
         PyOr(DictGet(response_data.items, "error"), "'Unknown error'"))

\* the error class of the if/elif chain over response.status_code
ErrorClass(s) ==
    CASE s = 401 -> "AuthenticationError"
      [] s = 403 -> "AuthorizationError"
      [] s = 404 -> "NotFoundError"
      [] s = 413 -> "FileTooLargeError"
      [] s = 422 -> "ValidationError"
      [] s = 429 -> "RateLimitError"
      [] s \notin {401, 403, 404, 413, 422, 429} /\ 500 <= s /\ s < 600 -> "ServerError"
      [] OTHER -> "DAMError"

\* the message template each class is raised with
ErrorFormat(exc) ==
    CASE exc = "ServerError" -> "Server error {status_code}: {error_message}"
      [] exc = "DAMError"    -> "API error {status_code}: {error_message}"
      [] OTHER               -> "{error_message}"

\* HandleResponse with the error message extracted before the status is looked at
HandleResponse_MessageFirst(r) ==
    LET response_data == ParseBody(r)
        s == r.status_code
    IN  IF response_data.type # "dict"
        THEN Raised("AttributeError", "'{type}' object has no attribute 'get'", 0, "")
        ELSE IF s = 200
        THEN Returned(response_data)
        ELSE Raised(ErrorClass(s), ErrorFormat(ErrorClass(s)), s, ErrorMessage(response_data))

HandleResponse(r) ==
    LET response_data == ParseBody(r)
        s == r.status_code
    IN  IF s = 200
        THEN Returned(response_data)
        ELSE IF response_data.type # "dict"
        THEN \* response_data.get on a list, str, int or None
             Raised("AttributeError", "'{type}' object has no attribute 'get'", 0, "")
        ELSE LET error_message == ErrorMessage(response_data)
                 exc == ErrorClass(s)
             IN  IF exc = "ServerError"
                 THEN [Raised(exc, ErrorFormat(exc), s, error_message)
                          EXCEPT !.status_code = s, !.response_data = response_data]
                 ELSE IF exc = "DAMError"
                 THEN Raised(exc, ErrorFormat(exc), s, error_message)
                 ELSE Raised(exc, ErrorFormat(exc), 0, error_message)

(* ---------------------------------------------------------------------- *)
(* Exceptions and except clauses                                           *)
(* ---------------------------------------------------------------------- *)

\* what the blocking transport (session.request) raises
SyncTransportErrors ==
    {"requests.ConnectionError", "requests.SSLError", "requests.ConnectTimeout",
     "requests.ReadTimeout", "requests.TooManyRedirects", "requests.ChunkedEncodingError",
     "requests.RetryError"}

\* what the cooperative transport (session.request, response.json) raises
AsyncTransportErrors ==
    {"asyncio.TimeoutError", "aiohttp.ServerTimeoutError", "aiohttp.ClientConnectorError",
     "aiohttp.ServerDisconnectedError", "aiohttp.ClientPayloadError"}

\* the classes an exception class derives from, itself included
Mro(c) ==
    CASE c = "requests.ConnectionError" ->
            {c, "requests.RequestException"}
      [] c = "requests.SSLError" ->
            {c, "requests.ConnectionError", "requests.RequestException"}
      [] c = "requests.ConnectTimeout" ->
            {c, "requests.ConnectionError", "requests.Timeout", "requests.RequestException"}
      [] c = "requests.ReadTimeout" ->
            {c, "requests.Timeout", "requests.RequestException"}
      [] c \in {"requests.TooManyRedirects", "requests.ChunkedEncodingError",
                "requests.RetryError"} ->
            {c, "requests.RequestException"}
      [] c = "aiohttp.ServerTimeoutError" ->
            {c, "aiohttp.ClientConnectionError", "aiohttp.ClientError", "asyncio.TimeoutError"}
      [] c \in {"aiohttp.ClientConnectorError", "aiohttp.ServerDisconnectedError"} ->
            {c, "aiohttp.ClientConnectionError", "aiohttp.ClientError"}
      [] c \in {"aiohttp.ClientPayloadError", "aiohttp.ContentTypeError"} ->
            {c, "aiohttp.ClientError"}
      [] c \in DAMErrorKinds -> {c, "DAMError"}
      [] OTHER -> {c}

\* the names that are exception classes.  aiohttp.ClientTimeout is the timeout
\* configuration class the client is constructed with (async_client.py 43),
\* not an exception class.
IsExceptionClass(c) == c # "aiohttp.ClientTimeout"

\* SyncExceptClauses with the base class caught first
SyncExceptClauses_BaseFirst ==
    <<"requests.RequestException", "requests.Timeout", "requests.ConnectionError">>

\* the classes named by the except clauses of DAMClient._request, in order
SyncExceptClauses ==
    <<"requests.Timeout", "requests.ConnectionError", "requests.RequestException">>

\* the classes named by the except clauses of AsyncDAMClient._request, in order
AsyncExceptClauses ==
    <<"aiohttp.ClientTimeout", "aiohttp.ClientConnectionError", "aiohttp.ClientError">>

\* Python's search for the except clause handling an exception of class c:
\* the index of the first clause whose class c derives from, 0 when no clause
\* matches, -1 when the search reaches a clause naming something that is not
\* an exception class (Python then raises TypeError).
RECURSIVE MatchFrom(_, _, _)
MatchFrom(clauses, c, i) ==
    IF i > Len(clauses) THEN 0
    ELSE IF ~IsExceptionClass(clauses[i]) THEN -1
    ELSE IF clauses[i] \in Mro(c) THEN i
    ELSE MatchFrom(clauses, c, i + 1)

MatchClause(clauses, c) == MatchFrom(clauses, c, 1)

\* the handlers of the three except clauses, the same in both clients:
\* raise TimeoutError / NetworkError / DAMError ... from e
TransportHandler(i, c) ==
    [Raised(CASE i = 1 -> "TimeoutError" [] i = 2 -> "NetworkError" [] OTHER -> "DAMError",
            CASE i = 1 -> "Request timed out after {timeout} seconds"
              [] i = 2 -> "Network connection failed"
              [] OTHER -> "Request failed: {e}",
            0, "")
        EXCEPT !.cause = c, !.context = c]

\* an exception (the outcome raised) leaving a try block with these clauses
ExceptChain(clauses, raised) ==
    LET m == MatchClause(clauses, raised.exc)
    IN  IF m = 0 THEN raised
        ELSE IF m = -1
        THEN [Raised("TypeError",
                     "catching classes that do not inherit from BaseException is not allowed",
                     0, "")
                 EXCEPT !.context = raised.exc]
        ELSE TransportHandler(m, raised.exc)

\* raise c(...) by the transport
TransportRaised(c) == Raised(c, "", 0, "")

(* ---------------------------------------------------------------------- *)
(* Operations                                                              *)
(* ---------------------------------------------------------------------- *)

\* the operations of DAMClient that go through _request
SyncOperations ==
    {"upload_file", "upload_multiple_files", "list_files", "get_file", "delete_file",
     "get_dashboard_stats", "get_storage_stats", "batch_delete_files"}

\* the operation of DAMClient that calls session.get itself
DownloadOperations == {"download_file"}

\* the operations of AsyncDAMClient
AsyncOperations == {"upload_file", "list_files", "get_file", "delete_file"}

\* the HTTP method each operation passes to _request
OpMethod(o) ==
    CASE o \in {"upload_file", "upload_multiple_files", "batch_delete_files"} -> "POST"
      [] o = "delete_file" -> "DELETE"
      [] OTHER -> "GET"

(* ---------------------------------------------------------------------- *)
(* DAMClient._request and its retrying transport (client.py 76-120)        *)
(* ---------------------------------------------------------------------- *)

RETRY_STATUS_CODES == {408, 429, 500, 502, 503, 504}
RETRY_METHODS == {"GET", "POST", "PUT", "DELETE"}

\* the statuses for which the Retry strategy honours a Retry-After header
\* (respect_retry_after_header is left at its default)
RETRY_AFTER_STATUS_CODES == {413, 429, 503}

\* the Retry-After header is looked at for these statuses alone
RetryAfterValues(s) == IF s \in RETRY_AFTER_STATUS_CODES THEN BOOLEAN ELSE {FALSE}

\* Retry.is_retry: for a method of allowed_methods the adapter re-sends on a
\* status of status_forcelist, and, while the budget (total) is not zero, on
\* a response with a Retry-After header and a status of
\* RETRY_AFTER_STATUS_CODES
IsRetry(m, s, ra, left) ==
    /\ m \in RETRY_METHODS
    /\ \/ s \in RETRY_STATUS_CODES
       \/ left > 0 /\ ra /\ s \in RETRY_AFTER_STATUS_CODES

\* Retry.increment then is_exhausted: the budget (total) is used up when
\* taking one more retry from it leaves it negative
IsExhausted(left) == left - 1 < 0

\* session.request raised the transport exception c: the except clauses of
\* _request
SyncTransportOutcome(c) == ExceptChain(SyncExceptClauses, TransportRaised(c))

\* session.request returned r: return self._handle_response(response), outside
\* the try block
SyncResponseOutcome(r) == HandleResponse(r)

(* ---------------------------------------------------------------------- *)
(* DAMClient.download_file (client.py 371-397)                             *)
(* ---------------------------------------------------------------------- *)

\* str(output_path)
OutputPath == [type |-> "str", items |-> EmptyDict, literal |-> "'out.bin'"]

\* session.get returned r: response.raise_for_status() raises
\* requests.HTTPError for a status of 400..599; otherwise the content is
\* written and the path returned
DownloadResponseOutcome(r) ==
    IF 400 <= r.status_code /\ r.status_code < 600
    THEN Raised("requests.HTTPError", "{status_code} Error: {reason} for url: {url}",
                r.status_code, "")
    ELSE Returned(OutputPath)

\* session.get raised the transport exception c: download_file has no except
\* clause, the exception leaves it as it is
DownloadTransportOutcome(c) == TransportRaised(c)

\* what an operation makes of the response r of its request
ResponseOutcome(o, r) ==
    IF o \in DownloadOperations THEN DownloadResponseOutcome(r) ELSE SyncResponseOutcome(r)

\* what an operation makes of the transport exception c of its request
TransportOutcome(o, c) ==
    IF o \in DownloadOperations THEN DownloadTransportOutcome(c) ELSE SyncTransportOutcome(c)

(* ---------------------------------------------------------------------- *)
(* AsyncDAMClient._request (async_client.py 67-123)                        *)
(* ---------------------------------------------------------------------- *)

\* await response.json() of the cooperative transport: it checks the content
\* type, then parses the text
AsyncResponseJson(r) ==
    IF ~r.json_content_type THEN TransportRaised("aiohttp.ContentTypeError")
    ELSE IF ~r.body.is_json THEN TransportRaised("json.JSONDecodeError")
    ELSE Returned(r.body.doc)

\* the body of the try block for a response r: a status other than 200 is
\* handed as a MockResponse (status, text) to the sync _handle_response, which
\* raises; otherwise the parsed JSON is returned
AsyncTryBody(r) ==
    IF r.status_code # 200
    THEN HandleResponse(Response(r.status_code, r.body, TRUE))
    ELSE AsyncResponseJson(r)

\* what leaves the try block passes the except clauses when it is an exception
AsyncResponseOutcome(r) ==
    LET o == AsyncTryBody(r)
    IN  IF o.kind = "raise" THEN ExceptChain(AsyncExceptClauses, o) ELSE o

AsyncTransportOutcome(c) == ExceptChain(AsyncExceptClauses, TransportRaised(c))

(* ---------------------------------------------------------------------- *)
(* Uploads: file arguments, size check, file handles                       *)
(* (client.py 158-253, async_client.py 125-164, utils.py 12-15)            *)
(* ---------------------------------------------------------------------- *)

\* constants.MAX_FILE_SIZE, and the limit written out in the async client
MAX_FILE_SIZE == 100 * 1024 * 1024
ASYNC_MAX_FILE_SIZE == 100 * 1024 * 1024

\* the sizes of the files on disk: at the limit and one byte over it
FileSizes == {MAX_FILE_SIZE, MAX_FILE_SIZE + 1}

\* the arguments an upload takes: the path of a file, the path of no file,
\* a binary stream the caller has opened
PathArg(n) == [kind |-> "path", exists |-> TRUE, size |-> n]
MissingPathArg == [kind |-> "path", exists |-> FALSE, size |-> 0]
StreamArg == [kind |-> "stream", exists |-> TRUE, size |-> 0]
FileArgs == {PathArg(n) : n \in FileSizes} \cup {MissingPathArg, StreamArg}

\* the lists of at most n arguments
FileArgLists(n) == UNION {[1..k -> FileArgs] : k \in 0..n}

\* the operations that take files
UploadOperations == {"upload_file", "upload_multiple_files"}

\* the argument lists of an operation: upload_file takes one file
OpFileArgs(o) ==
    IF o = "upload_multiple_files" THEN FileArgLists(MaxFiles) ELSE [1..1 -> FileArgs]

\* a file handle: who opened it, whether it is open, how often close() was
\* called on it
NoHandle == [owner |-> "none", open |-> FALSE, closes |-> 0]
CallerHandle == [owner |-> "caller", open |-> TRUE, closes |-> 0]
OpenedHandle == [owner |-> "call", open |-> TRUE, closes |-> 0]
CloseHandle(h) == [h EXCEPT !.open = FALSE, !.closes = @ + 1]

\* the handles when the call starts: the caller's streams are open, no path
\* has been opened
InitialHandles(args) ==
    [i \in 1..Len(args) |-> IF args[i].kind = "stream" THEN CallerHandle ELSE NoHandle]

\* validate_file_size with a limit one byte too high
ValidateFileSize_OffByOne(file_size, max_size) == file_size <= max_size + 1

\* utils.validate_file_size once os.path.getsize has given the size
ValidateFileSize(file_size, max_size) == file_size <= max_size

\* os.path.getsize on a path that names no file
FileNotFound == Raised("FileNotFoundError", "[Errno 2] No such file or directory", 0, "")

\* what the preparation of an upload ends with: the handles, and the
\* exception that ended it, if any
Prepared(hs, exc) == [handles |-> hs, raised |-> exc]

\* DAMClient.upload_file up to the call of _upload_files: a path is checked
\* against MAX_FILE_SIZE and opened by the with statement, a stream is
\* passed on as it is
SyncUploadFilePrepare(args) ==
    LET a == args[1]
        hs == InitialHandles(args)
    IN  IF a.kind = "path"
        THEN IF ~a.exists THEN Prepared(hs, FileNotFound)
             ELSE IF ~ValidateFileSize(a.size, MAX_FILE_SIZE)
             THEN Prepared(hs, Raised("FileTooLargeError",
                                      "File exceeds maximum size of {MAX_FILE_SIZE} bytes", 0, ""))
             ELSE Prepared([hs EXCEPT ![1] = OpenedHandle], NoOutcome)
        ELSE Prepared(hs, NoOutcome)

\* the loop of DAMClient.upload_multiple_files from the i-th argument on: a
\* path is checked against MAX_FILE_SIZE and opened, a stream is appended as
\* it is; an exception ends the loop and the call
RECURSIVE UploadMultipleLoop(_, _, _)
UploadMultipleLoop(args, i, hs) ==
    IF i > Len(args) THEN Prepared(hs, NoOutcome)
    ELSE LET a == args[i]
         IN  IF a.kind = "path"
             THEN IF ~a.exists THEN Prepared(hs, FileNotFound)
                  ELSE IF ~ValidateFileSize(a.size, MAX_FILE_SIZE)
                  THEN Prepared(hs, Raised("FileTooLargeError",
                                           "File {file_path} exceeds maximum size", 0, ""))
                  ELSE UploadMultipleLoop(args, i + 1, [hs EXCEPT ![i] = OpenedHandle])
             ELSE UploadMultipleLoop(args, i + 1, hs)

\* DAMClient.upload_multiple_files up to the try statement
UploadMultiplePrepare(args) == UploadMultipleLoop(args, 1, InitialHandles(args))

\* the preparation of a sync upload
SyncPrepare(o, args) ==
    IF o = "upload_multiple_files" THEN UploadMultiplePrepare(args)
    ELSE SyncUploadFilePrepare(args)

\* AsyncDAMClient.upload_file taking a stream the way DAMClient.upload_file does
AsyncUploadFilePrepare_StreamPassedOn(args) ==
    LET a == args[1]
        hs == InitialHandles(args)
    IN  IF a.kind = "path"
        THEN IF ~a.exists THEN Prepared(hs, FileNotFound)
             ELSE IF ~ValidateFileSize(a.size, ASYNC_MAX_FILE_SIZE)
             THEN Prepared(hs, Raised("FileTooLargeError", "File exceeds maximum size", 0, ""))
             ELSE Prepared([hs EXCEPT ![1] = OpenedHandle], NoOutcome)
        ELSE Prepared(hs, NoOutcome)

\* AsyncDAMClient.upload_file up to the call of _request: a path is checked
\* against the limit and opened by the with statement, a stream is refused
AsyncUploadFilePrepare(args) ==
    LET a == args[1]
        hs == InitialHandles(args)
    IN  IF a.kind = "path"
        THEN IF ~a.exists THEN Prepared(hs, FileNotFound)
             ELSE IF ~ValidateFileSize(a.size, ASYNC_MAX_FILE_SIZE)
             THEN Prepared(hs, Raised("FileTooLargeError", "File exceeds maximum size", 0, ""))
             ELSE Prepared([hs EXCEPT ![1] = OpenedHandle], NoOutcome)
        ELSE Prepared(hs, Raised("NotImplementedError",
                                 "File-like objects not yet supported in async client", 0, ""))

\* the end of the with statement of upload_file: the file it opened is closed
CloseOpened(hs) ==
    [i \in DOMAIN hs |-> IF hs[i].owner = "call" THEN CloseHandle(hs[i]) ELSE hs[i]]

\* the finally clause of upload_multiple_files: close() is called on the file
\* object of every entry of the list
CloseAll(hs) == [i \in DOMAIN hs |-> CloseHandle(hs[i])]

\* what the call does with the handles when its request has ended
ReleaseHandles(o, hs) ==
    IF o = "upload_multiple_files" THEN CloseAll(hs) ELSE CloseOpened(hs)

(* ---------------------------------------------------------------------- *)
(* The session of an AsyncDAMClient (async_client.py 32-65, 205-209)       *)
(* ---------------------------------------------------------------------- *)

\* self.session = None
NoSession == 0

\* the tasks that share the client
Tasks == 1..NumTasks

\* a task before its operation: pc is where it stands, kind the operation it
\* performs, used the session its request or scope got or its close found,
\* raised whether the body of its scope raised, propagated whether that
\* exception left the async with
IdleTask ==
    [pc |-> "idle", kind |-> "none", used |-> NoSession,
     raised |-> FALSE, propagated |-> FALSE]

\* _ensure_session creating a session whether or not there is one
SessionMissing_Always(s) == TRUE

\* _ensure_session: if self.session is None
SessionMissing(s) == s = NoSession

\* close testing nothing it could close
SessionPresent_Never(s) == FALSE

\* close: if self.session
SessionPresent(s) == s # NoSession

\* __aexit__ has no return statement: what it returns is None, which is not
\* true, so the exception of the body is not suppressed
AExitSuppresses == Truthy(None)

\* the client after __init__: no session
SessionInit ==
    /\ session = NoSession
    /\ created = 0
    /\ closed = {}
    /\ task = [t \in Tasks |-> IdleTask]
    /\ overlap = FALSE

(* ---------------------------------------------------------------------- *)
(* Request construction: configuration and built request                   *)
(* ---------------------------------------------------------------------- *)

\* no client constructed, no request built
NoConfig ==
    [client |-> "none", given_url |-> << >>, api_url |-> << >>, key_id |-> "",
     key_secret |-> "", headers |-> EmptyDict]
NoRequest ==
    [op |-> "none", file_id |-> "", method |-> "", url |-> << >>, headers |-> EmptyDict]

(* ---------------------------------------------------------------------- *)
(* The state machine: one call at a time                                   *)
(* ---------------------------------------------------------------------- *)

\* no call of a client in progress
CallIdle ==
    /\ pc = "idle"
    /\ client = "none"
    /\ op = "none"
    /\ max_retries = 0
    /\ retries_left = 0
    /\ sent = 0
    /\ response = NoResponse
    /\ transport_exc = "None"
    /\ outcome = NoOutcome
    /\ files = << >>
    /\ handles = << >>

\* no client constructed
BuildIdle == config = NoConfig /\ built = NoRequest

\* no function called
NoCall == [fn |-> "none", arg |-> << >>]
NoResult == [kind |-> "none", exc |-> "", value |-> << >>, arg |-> << >>]
PureIdle == call = NoCall /\ result = NoResult

Init ==
    /\ CallIdle
    /\ SessionInit
    /\ BuildIdle
    /\ PureIdle

\* client._handle_response(response) called on a response directly
ClassifyResponse ==
    /\ pc = "idle"
    /\ \E s \in StatusCodes, b \in Bodies :
        /\ response' = Response(s, b, TRUE)
        /\ outcome' = HandleResponse(response')
    /\ pc' = "done"
    /\ client' = "classifier"
    /\ UNCHANGED <<op, max_retries, retries_left, sent, transport_exc, files, handles>>
    /\ UNCHANGED <<sessvars, buildvars, purevars>>

\* an operation of a DAMClient constructed with some max_retries calls
\* _request, which sends the request
SyncRequest ==
    /\ pc = "idle"
    /\ \E o \in (SyncOperations \ UploadOperations) \cup DownloadOperations,
          mr \in 0..MaxRetriesBound :
        /\ op' = o
        /\ max_retries' = mr
        /\ retries_left' = mr
    /\ pc' = "sync_request"
    /\ client' = "sync"
    /\ sent' = 1
    /\ UNCHANGED <<response, transport_exc, outcome, files, handles>>
    /\ UNCHANGED <<sessvars, buildvars, purevars>>

\* upload_file or upload_multiple_files of a DAMClient is called with its
\* files: the files are checked and opened, and, unless that raised, _request
\* sends the request
SyncUpload ==
    /\ pc = "idle"
    /\ \E o \in UploadOperations, mr \in 0..MaxRetriesBound :
       \E args \in OpFileArgs(o) :
        LET p == SyncPrepare(o, args)
        IN  /\ op' = o
            /\ max_retries' = mr
            /\ retries_left' = mr
            /\ files' = args
            /\ handles' = p.handles
            /\ IF p.raised = NoOutcome
               THEN pc' = "sync_request" /\ sent' = 1 /\ outcome' = outcome
               ELSE pc' = "done" /\ sent' = 0 /\ outcome' = p.raised
    /\ client' = "sync"
    /\ UNCHANGED <<response, transport_exc>>
    /\ UNCHANGED <<sessvars, buildvars, purevars>>

\* a response the Retry strategy re-sends on arrives and the budget allows
\* another attempt: the transport re-sends the request
SyncRetry ==
    /\ pc = "sync_request"
    /\ ~IsExhausted(retries_left)
    /\ \E s \in StatusCodes : \E ra \in RetryAfterValues(s) :
        /\ IsRetry(OpMethod(op), s, ra, retries_left)
        /\ response' = WithRetryAfter(Response(s, NoBody, TRUE), ra)
    /\ retries_left' = retries_left - 1
    /\ sent' = sent + 1
    /\ UNCHANGED <<pc, client, op, max_retries, transport_exc, outcome, files, handles>>
    /\ UNCHANGED <<sessvars, buildvars, purevars>>

\* a response the Retry strategy re-sends on arrives and the budget is used
\* up: the transport raises MaxRetryError (raise_on_status), which
\* session.request raises as requests.RetryError
SyncRetriesExhausted ==
    /\ pc = "sync_request"
    /\ IsExhausted(retries_left)
    /\ \E s \in StatusCodes, b \in Bodies : \E ra \in RetryAfterValues(s) :
        /\ IsRetry(OpMethod(op), s, ra, retries_left)
        /\ response' = WithRetryAfter(Response(s, b, TRUE), ra)
    /\ pc' = "done"
    /\ transport_exc' = "requests.RetryError"
    /\ outcome' = TransportOutcome(op, transport_exc')
    /\ handles' = ReleaseHandles(op, handles)
    /\ UNCHANGED <<client, op, max_retries, retries_left, sent, files>>
    /\ UNCHANGED <<sessvars, buildvars, purevars>>

\* a response the transport does not retry arrives
SyncResponse ==
    /\ pc = "sync_request"
    /\ \E s \in StatusCodes, b \in Bodies : \E ra \in RetryAfterValues(s) :
        /\ ~IsRetry(OpMethod(op), s, ra, retries_left)
        /\ response' = WithRetryAfter(Response(s, b, TRUE), ra)
        /\ outcome' = ResponseOutcome(op, response')
    /\ pc' = "done"
    /\ handles' = ReleaseHandles(op, handles)
    /\ UNCHANGED <<client, op, max_retries, retries_left, sent, transport_exc, files>>
    /\ UNCHANGED <<sessvars, buildvars, purevars>>

\* session.request raises a transport exception
SyncTransportError ==
    /\ pc = "sync_request"
    /\ \E c \in SyncTransportErrors \ {"requests.RetryError"} :
        /\ transport_exc' = c
        /\ outcome' = TransportOutcome(op, c)
    /\ pc' = "done"
    /\ response' = NoResponse
    /\ handles' = ReleaseHandles(op, handles)
    /\ UNCHANGED <<client, op, max_retries, retries_left, sent, files>>
    /\ UNCHANGED <<sessvars, buildvars, purevars>>

\* an operation of an AsyncDAMClient calls _request, which sends the request
AsyncRequest ==
    /\ pc = "idle"
    /\ \E o \in AsyncOperations \ UploadOperations : op' = o
    /\ pc' = "async_request"
    /\ client' = "async"
    /\ sent' = 1
    /\ UNCHANGED <<max_retries, retries_left, response, transport_exc, outcome, files, handles>>
    /\ UNCHANGED <<sessvars, buildvars, purevars>>

\* upload_file of an AsyncDAMClient is called with its file: the file is
\* checked and opened, and, unless that raised, _request sends the request
AsyncUpload ==
    /\ pc = "idle"
    /\ \E args \in OpFileArgs("upload_file") :
        LET p == AsyncUploadFilePrepare(args)
        IN  /\ files' = args
            /\ handles' = p.handles
            /\ IF p.raised = NoOutcome
               THEN pc' = "async_request" /\ sent' = 1 /\ outcome' = outcome
               ELSE pc' = "done" /\ sent' = 0 /\ outcome' = p.raised
    /\ op' = "upload_file"
    /\ client' = "async"
    /\ UNCHANGED <<max_retries, retries_left, response, transport_exc>>
    /\ UNCHANGED <<sessvars, buildvars, purevars>>

\* AsyncResponse with a transport that re-sends the way the sync one does
AsyncResponse_Retrying ==
    /\ pc = "async_request"
    /\ \E s \in StatusCodes, b \in Bodies, ct \in BOOLEAN :
        /\ response' = Response(s, b, ct)
        /\ IF s \in RETRY_STATUS_CODES /\ sent <= MaxRetriesBound
           THEN pc' = pc /\ sent' = sent + 1 /\ outcome' = outcome /\ handles' = handles
           ELSE /\ pc' = "done"
                /\ sent' = sent
                /\ outcome' = AsyncResponseOutcome(response')
                /\ handles' = ReleaseHandles(op, handles)
    /\ UNCHANGED <<client, op, max_retries, retries_left, transport_exc, files>>
    /\ UNCHANGED <<sessvars, buildvars, purevars>>

\* the response arrives
AsyncResponse ==
    /\ pc = "async_request"
    /\ \E s \in StatusCodes, b \in Bodies, ct \in BOOLEAN :
        /\ response' = Response(s, b, ct)
        /\ outcome' = AsyncResponseOutcome(response')
    /\ pc' = "done"
    /\ handles' = ReleaseHandles(op, handles)
    /\ UNCHANGED <<client, op, max_retries, retries_left, sent, transport_exc, files>>
    /\ UNCHANGED <<sessvars, buildvars, purevars>>

\* session.request raises a transport exception
AsyncTransportError ==
    /\ pc = "async_request"
    /\ \E c \in AsyncTransportErrors :
        /\ transport_exc' = c
        /\ outcome' = AsyncTransportOutcome(c)
    /\ pc' = "done"
    /\ handles' = ReleaseHandles(op, handles)
    /\ UNCHANGED <<client, op, max_retries, retries_left, sent, response, files>>
    /\ UNCHANGED <<sessvars, buildvars, purevars>>

\* the caller has the outcome; the next call starts from a fresh client
Finish ==
    /\ pc = "done"
    /\ pc' = "idle"
    /\ client' = "none"
    /\ op' = "none"
    /\ max_retries' = 0
    /\ retries_left' = 0
    /\ sent' = 0
    /\ response' = NoResponse
    /\ transport_exc' = "None"
    /\ outcome' = NoOutcome
    /\ files' = << >>
    /\ handles' = << >>
    /\ UNCHANGED <<sessvars, buildvars, purevars>>

Next ==
    \/ ClassifyResponse
    \/ SyncRequest
    \/ SyncUpload
    \/ SyncRetry
    \/ SyncRetriesExhausted
    \/ SyncResponse
    \/ SyncTransportError
    \/ AsyncRequest
    \/ AsyncUpload
    \/ AsyncResponse
    \/ AsyncTransportError
    \/ Finish

Spec == Init /\ [][Next]_vars

(* ---------------------------------------------------------------------- *)
(* The state machine of one AsyncDAMClient used by concurrent tasks        *)
(* Each task performs one operation; tasks of one event loop interleave    *)
(* at their awaits only.                                                   *)
(* ---------------------------------------------------------------------- *)

\* the session _ensure_session leaves in self.session, and the number of
\* sessions created after it: a new session when there was none
EnsuredSession == IF SessionMissing(session) THEN created + 1 ELSE session
EnsuredCreated == IF SessionMissing(session) THEN created + 1 ELSE created

\* the task is between the first and the last step of its operation
UnderWay(t) == task[t].pc \notin {"idle", "done"}

\* the task begins its operation; tasks are numbered in the order they begin
Begins(t) ==
    /\ task[t].pc = "idle"
    /\ IF t = 1 THEN TRUE ELSE task[t - 1].pc # "idle"
    /\ overlap' = (overlap \/ \E u \in Tasks : UnderWay(u))

\* _request up to its await: _ensure_session, which has no await in it, then
\* self.session.request(...) on the session it left in self.session
TaskRequest(t) ==
    /\ Begins(t)
    /\ session' = EnsuredSession
    /\ created' = EnsuredCreated
    /\ task' = [task EXCEPT ![t] = [@ EXCEPT !.pc = "awaiting", !.kind = "request",
                                              !.used = EnsuredSession]]
    /\ UNCHANGED <<closed, callvars, buildvars, purevars>>

\* the response of the task's request has arrived
TaskResponse(t) ==
    /\ task[t].pc = "awaiting"
    /\ task' = [task EXCEPT ![t].pc = "done"]
    /\ UNCHANGED <<session, created, closed, overlap, callvars, buildvars, purevars>>

\* close() up to its await: if self.session: await self.session.close();
\* without a session close() is over at once
TaskClose(t) ==
    /\ Begins(t)
    /\ IF SessionPresent(session)
       THEN /\ closed' = closed \cup {session}
            /\ task' = [task EXCEPT ![t] = [@ EXCEPT !.pc = "closing", !.kind = "close",
                                                      !.used = session]]
       ELSE /\ closed' = closed
            /\ task' = [task EXCEPT ![t] = [@ EXCEPT !.pc = "done", !.kind = "close",
                                                      !.used = session]]
    /\ UNCHANGED <<session, created, callvars, buildvars, purevars>>

\* close() after its await: self.session = None
TaskCloseEnd(t) ==
    /\ task[t].pc = "closing"
    /\ session' = NoSession
    /\ task' = [task EXCEPT ![t].pc = "done"]
    /\ UNCHANGED <<created, closed, overlap, callvars, buildvars, purevars>>

\* async with client: __aenter__ awaits _ensure_session and returns self
ScopeEnter(t) ==
    /\ Begins(t)
    /\ session' = EnsuredSession
    /\ created' = EnsuredCreated
    /\ task' = [task EXCEPT ![t] = [@ EXCEPT !.pc = "body", !.kind = "scope",
                                              !.used = EnsuredSession]]
    /\ UNCHANGED <<closed, callvars, buildvars, purevars>>

\* the body of the async with ends, normally or by raising
ScopeBody(t) ==
    /\ task[t].pc = "body"
    /\ \E r \in BOOLEAN :
        task' = [task EXCEPT ![t] = [@ EXCEPT !.pc = "exiting", !.raised = r]]
    /\ UNCHANGED <<session, created, closed, overlap, callvars, buildvars, purevars>>

\* __aexit__ awaits close(), here up to the await of close(); without a
\* session __aexit__ is over at once
ScopeExit(t) ==
    /\ task[t].pc = "exiting"
    /\ IF SessionPresent(session)
       THEN /\ closed' = closed \cup {session}
            /\ task' = [task EXCEPT ![t].pc = "exit_closing"]
       ELSE /\ closed' = closed
            /\ task' = [task EXCEPT ![t] = [@ EXCEPT !.pc = "done",
                            !.propagated = task[t].raised /\ ~AExitSuppresses]]
    /\ UNCHANGED <<session, created, overlap, callvars, buildvars, purevars>>

\* close() after its await, and the return of __aexit__
ScopeExitEnd(t) ==
    /\ task[t].pc = "exit_closing"
    /\ session' = NoSession
    /\ task' = [task EXCEPT ![t] = [@ EXCEPT !.pc = "done",
                    !.propagated = task[t].raised /\ ~AExitSuppresses]]
    /\ UNCHANGED <<created, closed, overlap, callvars, buildvars, purevars>>

SessionNext ==
    \E t \in Tasks :
        \/ TaskRequest(t)
        \/ TaskResponse(t)
        \/ TaskClose(t)
        \/ TaskCloseEnd(t)
        \/ ScopeEnter(t)
        \/ ScopeBody(t)
        \/ ScopeExit(t)
        \/ ScopeExitEnd(t)

SessionSpec == Init /\ [][SessionNext]_vars

(* ---------------------------------------------------------------------- *)
(* Request construction (client.py 42-99, 255-443; async_client.py 32-78,  *)
(* 125-203; constants.py 22-39)                                            *)
(* A URL is the sequence of its pieces: the characters of the base URL,    *)
(* then the pieces of the endpoint.                                        *)
(* ---------------------------------------------------------------------- *)

\* the base URLs a client is constructed with: strings over a character
\* that is no slash and the slash
UrlChars == {"h", "/"}
BaseUrls == UNION {[1..n -> UrlChars] : n \in 1..MaxBaseLen}

\* the credentials a client is constructed with, the ids of files
KeyIds == {"key-1", "key-2"}
KeySecrets == {"secret-1", "secret-2"}
FileIds == {"f1", "f2"}

\* the base URL kept as it was given
RStrip_Kept(u) == u

\* api_url.rstrip('/')
RECURSIVE RStrip(_)
RStrip(u) ==
    IF u = << >> THEN u
    ELSE IF u[Len(u)] = "/" THEN RStrip(SubSeq(u, 1, Len(u) - 1))
    ELSE u

\* constants.ENDPOINTS
ENDPOINTS ==
    [upload_single   |-> <<"/api/public/single">>,
     upload_multiple |-> <<"/api/public/multiple">>,
     files_list      |-> <<"/api/public/files">>,
     file_detail     |-> <<"/api/public/files/", "{id}">>,
     file_delete     |-> <<"/api/public/files/", "{id}">>,
     transform       |-> <<"/api/transform/", "{id}">>,
     thumbnail       |-> <<"/api/transform/", "{id}", "/thumbnail">>,
     stats_dashboard |-> <<"/api/stats/dashboard">>,
     stats_storage   |-> <<"/api/stats/storage">>]

\* template.format(id=file_id)
Format(template, file_id) ==
    [i \in DOMAIN template |-> IF template[i] = "{id}" THEN file_id ELSE template[i]]

\* the endpoint each operation of DAMClient passes to _request; download_file
\* takes the URL of get_file_url without transform options
SyncEndpoint(o, file_id) ==
    CASE o = "upload_file"           -> ENDPOINTS.upload_single
      [] o = "upload_multiple_files" -> ENDPOINTS.upload_multiple
      [] o = "list_files"            -> ENDPOINTS.files_list
      [] o = "get_file"              -> Format(ENDPOINTS.file_detail, file_id)
      [] o = "delete_file"           -> Format(ENDPOINTS.file_delete, file_id)
      [] o = "get_dashboard_stats"   -> ENDPOINTS.stats_dashboard
      [] o = "get_storage_stats"     -> ENDPOINTS.stats_storage
      [] o = "batch_delete_files"    -> <<"/api/files/bulk-delete">>
      [] o = "download_file"         -> Format(ENDPOINTS.transform, file_id)

\* the endpoint each operation of AsyncDAMClient passes to _request
AsyncEndpoint(o, file_id) ==
    CASE o = "upload_file" -> <<"/api/public/single">>
      [] o = "list_files"  -> <<"/api/public/files">>
      [] o = "get_file"    -> <<"/api/public/files/", file_id>>
      [] o = "delete_file" -> <<"/api/public/files/", file_id>>

\* dict.update
Update(d, e) ==
    [k \in DOMAIN d \cup DOMAIN e |-> IF k \in DOMAIN e THEN e[k] ELSE d[k]]

\* constants.HEADERS
HEADERS ==
    ("User-Agent" :> "DAM-Python-SDK/1.0.0") @@ ("Accept" :> "application/json")

\* the headers of a new requests.Session
RequestsDefaultHeaders ==
    ("User-Agent" :> "python-requests") @@ ("Accept-Encoding" :> "gzip, deflate")
        @@ ("Accept" :> "*/*") @@ ("Connection" :> "keep-alive")

\* the credential headers
CredentialHeaders(key_id, key_secret) ==
    ("X-API-Key-ID" :> key_id) @@ ("X-API-Key-Secret" :> key_secret)

\* the session headers with the updates applied under the session's defaults
SyncSessionHeaders_DefaultsLast(key_id, key_secret) ==
    Update(Update(HEADERS, CredentialHeaders(key_id, key_secret)), RequestsDefaultHeaders)

\* DAMClient.__init__: session.headers.update(HEADERS), then the update with
\* the credentials
SyncSessionHeaders(key_id, key_secret) ==
    Update(Update(RequestsDefaultHeaders, HEADERS), CredentialHeaders(key_id, key_secret))

\* _ensure_session: the headers the ClientSession is created with
AsyncSessionHeaders(key_id, key_secret) ==
    ("X-API-Key-ID" :> key_id) @@ ("X-API-Key-Secret" :> key_secret)
        @@ ("User-Agent" :> "DAM-Python-SDK/1.0.0") @@ ("Accept" :> "application/json")

\* a client is constructed: DAMClient.__init__ or AsyncDAMClient.__init__
Construct ==
    /\ config = NoConfig
    /\ \E kind \in {"sync", "async"}, base \in BaseUrls,
          key_id \in KeyIds, key_secret \in KeySecrets :
        config' = [client |-> kind, given_url |-> base, api_url |-> RStrip(base),
                   key_id |-> key_id, key_secret |-> key_secret,
                   headers |-> IF kind = "sync" THEN SyncSessionHeaders(key_id, key_secret)
                               ELSE EmptyDict]
    /\ UNCHANGED <<built, callvars, sessvars, purevars>>

\* an operation of the DAMClient builds its request: _request, or session.get
\* in download_file, with the headers of the session
BuildSyncRequest ==
    /\ config.client = "sync"
    /\ built = NoRequest
    /\ \E o \in SyncOperations \cup DownloadOperations, file_id \in FileIds :
        built' = [op |-> o, file_id |-> file_id, method |-> OpMethod(o),
                  url |-> config.api_url \o SyncEndpoint(o, file_id),
                  headers |-> config.headers]
    /\ UNCHANGED <<config, callvars, sessvars, purevars>>

\* an operation of the AsyncDAMClient builds its request: _ensure_session
\* creates the session with its headers, _request builds the URL
BuildAsyncRequest ==
    /\ config.client = "async"
    /\ built = NoRequest
    /\ \E o \in AsyncOperations, file_id \in FileIds :
        built' = [op |-> o, file_id |-> file_id, method |-> OpMethod(o),
                  url |-> config.api_url \o AsyncEndpoint(o, file_id),
                  headers |-> AsyncSessionHeaders(config.key_id, config.key_secret)]
    /\ UNCHANGED <<config, callvars, sessvars, purevars>>

\* the request has been sent; the next one comes from a fresh client
BuildReset ==
    /\ built # NoRequest
    /\ config' = NoConfig
    /\ built' = NoRequest
    /\ UNCHANGED <<callvars, sessvars, purevars>>

BuildNext ==
    \/ Construct
    \/ BuildSyncRequest
    \/ BuildAsyncRequest
    \/ BuildReset

BuildSpec == Init /\ [][BuildNext]_vars

(* ---------------------------------------------------------------------- *)
(* Functions of data: models.py and utils.py                               *)
(* A Python value is its type and the text str() gives for it; a list is    *)
(* written as the texts of its items joined by commas.                     *)
(* ---------------------------------------------------------------------- *)

NoneVal == [type |-> "NoneType", text |-> "None"]
IntVal(t) == [type |-> "int", text |-> t]
StrVal(t) == [type |-> "str", text |-> t]
BoolVal(t) == [type |-> "bool", text |-> t]
ListVal(t) == [type |-> "list", text |-> t]
DictVal(t) == [type |-> "dict", text |-> t]

\* bool(v)
ValTruthy(v) ==
    CASE v.type = "NoneType" -> FALSE
      [] v.type = "int"      -> v.text # "0"
      [] v.type = "str"      -> v.text # ""
      [] v.type = "bool"     -> v.text = "True"
      [] v.type = "list"     -> v.text # ""
      [] v.type = "dict"     -> v.text # "{}"
      [] OTHER               -> TRUE

\* str(v), a str
Str(v) == StrVal(v.text)

\* s.lower() of the str of a bool
Lower(s) == StrVal(IF s.text = "True" THEN "true" ELSE IF s.text = "False" THEN "false" ELSE s.text)

\* a key and its value in a dict, which keeps the order of insertion
Item(k, v) == [key |-> k, value |-> v]

\* params[k] = v if the condition holds
ItemIf(cond, k, v) == IF cond THEN <<Item(k, v)>> ELSE << >>

\* the keys of a dict
Keys(d) == {d[i].key : i \in DOMAIN d}

\* d[k] for a key of the dict
ValueOf(d, k) == d[CHOOSE i \in DOMAIN d : d[i].key = k].value

\* the TransformOptions a caller builds
TransformOptionsSet ==
    [width     : {NoneVal, IntVal("0"), IntVal("100")},
     height    : {NoneVal, IntVal("50")},
     fit       : {StrVal("cover"), StrVal("")},
     format    : {NoneVal, StrVal("webp")},
     quality   : {IntVal("80"), IntVal("0")},
     blur      : {NoneVal, IntVal("5")},
     grayscale : {BoolVal("False"), BoolVal("True")},
     rotate    : {NoneVal, IntVal("0"), IntVal("-90")}]

\* to_query_params emitting grayscale as str(self.grayscale)
ToQueryParams_GrayscaleAsStr(o) ==
    ItemIf(ValTruthy(o.width), "w", Str(o.width))
        \o ItemIf(ValTruthy(o.height), "h", Str(o.height))
        \o ItemIf(ValTruthy(o.fit), "fit", o.fit)
        \o ItemIf(ValTruthy(o.format), "format", o.format)
        \o ItemIf(ValTruthy(o.quality), "quality", Str(o.quality))
        \o ItemIf(ValTruthy(o.blur), "blur", Str(o.blur))
        \o ItemIf(ValTruthy(o.grayscale), "grayscale", Str(o.grayscale))
        \o ItemIf(ValTruthy(o.rotate), "rotate", Str(o.rotate))

\* TransformOptions.to_query_params
ToQueryParams(o) ==
    ItemIf(ValTruthy(o.width), "w", Str(o.width))
        \o ItemIf(ValTruthy(o.height), "h", Str(o.height))
        \o ItemIf(ValTruthy(o.fit), "fit", o.fit)
        \o ItemIf(ValTruthy(o.format), "format", o.format)
        \o ItemIf(ValTruthy(o.quality), "quality", Str(o.quality))
        \o ItemIf(ValTruthy(o.blur), "blur", Str(o.blur))
        \o ItemIf(ValTruthy(o.grayscale), "grayscale", StrVal("true"))
        \o ItemIf(ValTruthy(o.rotate), "rotate", Str(o.rotate))

\* the texts joined by the separator: sep.join(parts)
RECURSIVE Join(_, _)
Join(parts, sep) ==
    IF parts = << >> THEN ""
    ELSE IF Len(parts) = 1 THEN parts[1]
    ELSE parts[1] \o sep \o Join(Tail(parts), sep)

\* the pieces of a text put together
Concat(pieces) == Join(pieces, "")

\* build_query_params keeping the values that are true
IsNotNone_Truthy(v) == ValTruthy(v)

\* build_query_params: value is not None
IsNotNone(v) == v.type # "NoneType"

\* build_query_params: the text a value is written as: str(value).lower()
\* for a bool, the items joined by commas for a list, str(value) otherwise
QueryValue(v) ==
    IF v.type = "bool" THEN Lower(Str(v)).text
    ELSE IF v.type = "list" THEN v.text
    ELSE Str(v).text

\* build_query_params: the loop over params.items()
RECURSIVE QueryParts(_)
QueryParts(params) ==
    IF params = << >> THEN << >>
    ELSE (IF IsNotNone(Head(params).value)
          THEN <<Head(params).key \o "=" \o QueryValue(Head(params).value)>>
          ELSE << >>) \o QueryParts(Tail(params))

\* utils.build_query_params
BuildQueryParams(params) ==
    IF params = << >> THEN ""
    ELSE LET query_parts == QueryParts(params)
         IN  IF query_parts # << >> THEN "?" \o Join(query_parts, "&") ELSE ""

\* DAMClient.get_file_url: the URL of the file, with the transform options
\* as its query string when options are given
GetFileUrl(api_url, file_id, has_options, transform_options) ==
    LET endpoint ==
            IF has_options
            THEN Concat(Format(ENDPOINTS.transform, file_id))
                     \o BuildQueryParams(ToQueryParams(transform_options))
            ELSE Concat(Format(ENDPOINTS.transform, file_id))
    IN  api_url \o endpoint

\* a call that returned, and one that raised; arg is the argument afterwards
Returns(v, a) == [kind |-> "return", exc |-> "", value |-> v, arg |-> a]
Raises(e, a) == [kind |-> "raise", exc |-> e, value |-> << >>, arg |-> a]

\* the call in progress is a call of fn that has not yet been made
Calling(fn) == call.fn = fn /\ result.kind = "none"

\* the call of fn has ended
Called(fn) == call.fn = fn /\ result.kind # "none"

\* A file name is the sequence of its characters; "file" and "jpg" stand for
\* runs of ordinary characters.
invalid_chars == <<"<", ">", ":", "\"", "/", "\\", "|", "?", "*">>
OrdinaryChars == {"a", ".", "_"}
NameChars == {invalid_chars[i] : i \in DOMAIN invalid_chars} \cup OrdinaryChars
ExampleName == <<"/", "a", "/", "b", "/", "file", "<", ">", ":", ".", "jpg">>
FileNames == UNION {[1..n -> NameChars] : n \in 0..MaxNameLen} \cup {ExampleName}

\* the texts between the slashes of a path
RECURSIVE Components(_)
Components(path) ==
    IF \A i \in DOMAIN path : path[i] # "/" THEN <<path>>
    ELSE LET i == CHOOSE k \in DOMAIN path :
                      path[k] = "/" /\ \A j \in 1..(k - 1) : path[j] # "/"
         IN  <<SubSeq(path, 1, i - 1)>> \o Components(SubSeq(path, i + 1, Len(path)))

\* pathlib.PurePosixPath(path).name: the last component that is neither
\* empty nor '.', and '' when there is none
PathName(path) ==
    LET parts == SelectSeq(Components(path), LAMBDA c : c # << >> /\ c # <<".">>)
    IN  IF parts = << >> THEN << >> ELSE parts[Len(parts)]

\* filename.replace(char, '_', 1): the first occurrence only
Replace_FirstOnly(filename, char) ==
    [i \in DOMAIN filename |->
        IF filename[i] = char /\ \A j \in 1..(i - 1) : filename[j] # char
        THEN "_" ELSE filename[i]]

\* filename.replace(char, '_')
Replace(filename, char) ==
    [i \in DOMAIN filename |-> IF filename[i] = char THEN "_" ELSE filename[i]]

\* for char in invalid_chars: filename = filename.replace(char, '_')
RECURSIVE ReplaceEach(_, _)
ReplaceEach(filename, chars) ==
    IF chars = << >> THEN filename
    ELSE ReplaceEach(Replace(filename, Head(chars)), Tail(chars))

\* utils.sanitize_filename
SanitizeFilename(filename) == ReplaceEach(PathName(filename), invalid_chars)

\* A mime type is the sequence of its pieces: a type, the slash, a subtype.
document_types ==
    {<<"application", "/", "pdf">>,
     <<"application", "/", "msword">>,
     <<"application", "/", "vnd.openxmlformats-officedocument.wordprocessingml.document">>,
     <<"application", "/", "vnd.ms-excel">>,
     <<"application", "/", "vnd.openxmlformats-officedocument.spreadsheetml.sheet">>}
MimeTypes ==
    document_types \cup
    {<<"image", "/", "jpeg">>, <<"image", "/", "png">>, <<"image", "/">>, <<"image">>,
     <<"video", "/", "mp4">>, <<"video">>, <<"IMAGE", "/", "jpeg">>,
     <<"application", "/", "json">>, <<"application", "/", "pdf", "x">>,
     <<"text", "/", "plain">>, << >>}

\* the File objects whose properties are read
FileObjects == [id : FileIds, mime_type : MimeTypes, size : {"0", "1024"}]

\* s == prefix, in place of s.startswith(prefix)
StartsWith_Equals(s, prefix) == s = prefix

\* s.startswith(prefix)
StartsWith(s, prefix) ==
    /\ Len(s) >= Len(prefix)
    /\ SubSeq(s, 1, Len(prefix)) = prefix

\* File.is_image, File.is_video, File.is_document
IsImage(f) == StartsWith(f.mime_type, <<"image", "/">>)
IsVideo(f) == StartsWith(f.mime_type, <<"video", "/">>)
IsDocument(f) == f.mime_type \in document_types

\* the three properties of a File, read one after the other
FileProperties(f) ==
    [is_image |-> IsImage(f), is_video |-> IsVideo(f), is_document |-> IsDocument(f)]

\* A timestamp text is the sequence of its pieces: the date and time, then
\* the zone if it has one. A key the payload does not have is Absent, a JSON
\* null is Null.
Absent == [type |-> "absent", text |-> << >>]
Null == [type |-> "NoneType", text |-> << >>]
Text(t) == [type |-> "str", text |-> t]
Number(t) == [type |-> "int", text |-> t]
Datetime(t) == [type |-> "datetime", text |-> t]
TimestampValues ==
    {Absent, Null, Number(<<"1700000000">>),
     Text(<<"2024-01-01T00:00:00", "Z">>), Text(<<"2024-01-01T00:00:00", "+00:00">>),
     Text(<<"2024-01-01T00:00:00">>), Text(<<"not-a-date">>),
     Text(<<"2024-13-45T00:00:00", "Z">>), Text(<< >>)}

\* the texts datetime.fromisoformat parses, among those of the model
IsoFormats == {<<"2024-01-01T00:00:00", "+00:00">>, <<"2024-01-01T00:00:00">>}

\* text.replace('Z', '+00:00')
ReplaceZ(text) == [i \in DOMAIN text |-> IF text[i] = "Z" THEN "+00:00" ELSE text[i]]

\* bool(v) of a value of a payload
IsTruthy(v) ==
    CASE v.type = "NoneType" -> FALSE
      [] v.type = "str"      -> v.text # << >>
      [] v.type = "int"      -> v.text # <<"0">>
      [] OTHER               -> TRUE

\* data.get(key)
Get(data, key) == IF data[key].type = "absent" THEN Null ELSE data[key]

\* the payloads from_dict is given; the keys without a default are present
Classes == {"File", "Folder"}
Payloads == [id : FileIds, created_at : TimestampValues, updated_at : TimestampValues]

\* if value and isinstance(value, str): the conversion is attempted
Converted(data, key) == IsTruthy(Get(data, key)) /\ Get(data, key).type = "str"

\* datetime.fromisoformat raises ValueError
ConversionFails(data, key) ==
    Converted(data, key) /\ ReplaceZ(Get(data, key).text) \notin IsoFormats

\* data[key] = datetime.fromisoformat(value.replace('Z', '+00:00')), done in
\* the dict that was passed in
Convert(data, key) ==
    IF Converted(data, key)
    THEN [data EXCEPT ![key] = Datetime(ReplaceZ(Get(data, key).text))]
    ELSE data

\* cls(**data): the keys given, and the default None for the others
Cls(cls, data) ==
    [cls        |-> cls,
     id         |-> data.id,
     created_at |-> Get(data, "created_at"),
     updated_at |-> Get(data, "updated_at")]

\* File.from_dict and Folder.from_dict: the result, with the dict afterwards
FromDict(cls, data) ==
    IF ConversionFails(data, "created_at") THEN Raises("ValueError", data)
    ELSE LET data1 == Convert(data, "created_at")
         IN  IF ConversionFails(data1, "updated_at") THEN Raises("ValueError", data1)
             ELSE LET data2 == Convert(data1, "updated_at")
                  IN  Returns(Cls(cls, data2), data2)

\* the SearchOptions and UploadOptions a caller builds
SearchOptionsSet ==
    [folder_id : {NoneVal, StrVal("fo1")},
     mime_type : {NoneVal, StrVal("image/png")},
     search    : {NoneVal, StrVal("cat")},
     limit     : {IntVal("50"), IntVal("10")},
     offset    : {IntVal("0"), IntVal("20")},
     sort      : {StrVal("created_at"), StrVal("size")},
     order     : {StrVal("desc"), StrVal("asc")}]
UploadOptionsSet ==
    [folder_id     : {NoneVal, StrVal(""), StrVal("fo1")},
     metadata      : {NoneVal, DictVal("{}"), DictVal("{\"k\": \"v\"}")},
     original_name : {NoneVal, StrVal(""), StrVal("n.jpg")}]

\* json.dumps(metadata)
JsonDumps(v) == StrVal(v.text)

\* DAMClient.list_files: the params given to _request
ListFilesParams(options) ==
    <<Item("folder_id", options.folder_id),
      Item("mime_type", options.mime_type),
      Item("search", options.search),
      Item("limit", options.limit),
      Item("offset", options.offset),
      Item("sort", options.sort),
      Item("order", options.order)>>

\* AsyncDAMClient.list_files: the params given to _request
AsyncListFilesParams(options) ==
    <<Item("folder_id", options.folder_id),
      Item("mime_type", options.mime_type),
      Item("search", options.search),
      Item("limit", options.limit),
      Item("offset", options.offset)>>

\* DAMClient._build_upload_data: the form fields sent with the file
BuildUploadData(options) ==
    ItemIf(ValTruthy(options.folder_id), "folder_id", options.folder_id)
        \o ItemIf(ValTruthy(options.metadata), "metadata", JsonDumps(options.metadata))
        \o ItemIf(ValTruthy(options.original_name), "original_name", options.original_name)

\* AsyncDAMClient.upload_file: the fields added to the FormData before the file
AsyncFormData(options) ==
    ItemIf(ValTruthy(options.folder_id), "folder_id", options.folder_id)
        \o ItemIf(ValTruthy(options.metadata), "metadata", JsonDumps(options.metadata))

\* The parsed body of a 200 response to list_files: an object that may have
\* a success flag, a data array of file payloads and a pagination object.
Bool(t) == [type |-> "bool", text |-> <<t>>]
Object(t) == [type |-> "dict", text |-> t]
ResponseItems ==
    [id         : FileIds,
     created_at : {Absent, Text(<<"2024-01-01T00:00:00", "Z">>), Text(<<"not-a-date">>)},
     updated_at : {Absent}]
ListBodies ==
    [success    : {Absent, Bool("True"), Bool("False")},
     has_data   : {TRUE},
     data       : UNION {[1..n -> ResponseItems] : n \in 0..MaxItems},
     pagination : {Absent, Object(<<"total", "limit", "offset", "has_more">>)}]
    \cup
    [success    : {Absent, Bool("True")},
     has_data   : {FALSE},
     data       : {<< >>},
     pagination : {Absent}]

\* d.get(key, default)
GetOr(d, key, default) == IF d[key].type = "absent" THEN default ELSE d[key]

\* files.insert(0, ...) in place of files.append(...)
Files_Prepended(results) ==
    [i \in DOMAIN results |-> results[Len(results) + 1 - i].value]

\* files.append(File.from_dict(file_data)) for each element
Files(results) == [i \in DOMAIN results |-> results[i].value]

\* list_files after its request: the response mapped to a FileListResponse.
\* The loop stops at the first element from_dict raises for; the elements
\* before it, and it, are left as from_dict left them.
ListFilesResponse(response_data) ==
    LET items   == IF response_data.has_data THEN response_data.data ELSE << >>
        results == [i \in DOMAIN items |-> FromDict("File", items[i])]
        failed  == {i \in DOMAIN items : results[i].kind = "raise"}
        first   == CHOOSE i \in failed : \A j \in failed : i <= j
        after   == [i \in DOMAIN items |->
                       IF failed = {} THEN results[i].arg
                       ELSE IF i <= first THEN results[i].arg ELSE items[i]]
        body    == [response_data EXCEPT !.data = after]
    IN  IF failed # {} THEN Raises("ValueError", body)
        ELSE Returns([success    |-> GetOr(response_data, "success", Bool("False")),
                      data       |-> Files(results),
                      pagination |-> GetOr(response_data, "pagination", Object(<< >>))],
                     body)

\* the dicts build_query_params is given: up to MaxParams keys in any order
ParamKeys == {"limit", "offset", "folder_id"}
ParamValues ==
    {NoneVal, IntVal("0"), IntVal("10"), BoolVal("False"), BoolVal("True"), ListVal("a,b")}
ParamItems == {Item(k, v) : k \in ParamKeys, v \in ParamValues}
ParamDicts ==
    {d \in UNION {[1..n -> ParamItems] : n \in 0..MaxParams} :
        \A i, j \in DOMAIN d : d[i].key = d[j].key => i = j}

\* the base URL kept by a client, here one without a trailing slash
ApiUrls == {"http://h"}

(* ---------------------------------------------------------------------- *)
(* The state machine of the functions of data: a function is called with   *)
(* an argument, and returns or raises                                      *)
(* ---------------------------------------------------------------------- *)

\* options.to_query_params()
CallToQueryParams ==
    /\ Calling("to_query_params")
    /\ result' = Returns(ToQueryParams(call.arg), call.arg)
    /\ UNCHANGED <<call, callvars, sessvars, buildvars>>

\* client.get_file_url(file_id, transform_options)
CallGetFileUrl ==
    /\ Calling("get_file_url")
    /\ result' = Returns(GetFileUrl(call.arg.api_url, call.arg.file_id,
                                    call.arg.has_options, call.arg.options), call.arg)
    /\ UNCHANGED <<call, callvars, sessvars, buildvars>>

\* build_query_params(params)
CallBuildQueryParams ==
    /\ Calling("build_query_params")
    /\ result' = Returns(BuildQueryParams(call.arg), call.arg)
    /\ UNCHANGED <<call, callvars, sessvars, buildvars>>

\* sanitize_filename(filename)
CallSanitizeFilename ==
    /\ Calling("sanitize_filename")
    /\ result' = Returns(SanitizeFilename(call.arg), call.arg)
    /\ UNCHANGED <<call, callvars, sessvars, buildvars>>

\* the calls of sanitize_filename
SanitizeCalls == \E n \in FileNames : call = [fn |-> "sanitize_filename", arg |-> n]

\* file.is_image, file.is_video, file.is_document
CallFileProperties ==
    /\ Calling("file_properties")
    /\ result' = Returns(FileProperties(call.arg), call.arg)
    /\ UNCHANGED <<call, callvars, sessvars, buildvars>>

\* the File objects whose properties are read
PropertyCalls == \E f \in FileObjects : call = [fn |-> "file_properties", arg |-> f]

\* File.from_dict(data), Folder.from_dict(data)
CallFromDict ==
    /\ Calling("from_dict")
    /\ result' = FromDict(call.cls, call.arg)
    /\ UNCHANGED <<call, callvars, sessvars, buildvars>>

\* the calls of from_dict
FromDictCalls ==
    \E c \in Classes, d \in Payloads : call = [fn |-> "from_dict", cls |-> c, arg |-> d]

\* list_files(options), up to the params of its request
CallListFiles ==
    /\ Calling("list_files")
    /\ result' = Returns(IF call.client = "sync" THEN ListFilesParams(call.arg)
                                                ELSE AsyncListFilesParams(call.arg), call.arg)
    /\ UNCHANGED <<call, callvars, sessvars, buildvars>>

\* upload_file(path, options), up to the form fields of its request
CallUploadFile ==
    /\ Calling("upload_file")
    /\ result' = Returns(IF call.client = "sync" THEN BuildUploadData(call.arg)
                                                ELSE AsyncFormData(call.arg), call.arg)
    /\ UNCHANGED <<call, callvars, sessvars, buildvars>>

\* the calls of list_files and upload_file on either client
RequestCalls ==
    \/ \E c \in {"sync", "async"}, o \in SearchOptionsSet :
           call = [fn |-> "list_files", client |-> c, arg |-> o]
    \/ \E c \in {"sync", "async"}, o \in UploadOptionsSet :
           call = [fn |-> "upload_file", client |-> c, arg |-> o]

\* list_files(options), from the parsed body of its 200 response on
CallListFilesResponse ==
    /\ Calling("list_files_response")
    /\ result' = ListFilesResponse(call.arg)
    /\ UNCHANGED <<call, callvars, sessvars, buildvars>>

\* the 200 responses list_files gets on either client
ResponseCalls ==
    \E c \in {"sync", "async"}, b \in ListBodies :
        call = [fn |-> "list_files_response", client |-> c, arg |-> b]

\* the calls of build_query_params
QueryCalls == \E d \in ParamDicts : call = [fn |-> "build_query_params", arg |-> d]

\* the calls of to_query_params and get_file_url
TransformCalls ==
    \/ \E o \in TransformOptionsSet : call = [fn |-> "to_query_params", arg |-> o]
    \/ \E u \in ApiUrls, f \in FileIds, h \in BOOLEAN, o \in TransformOptionsSet :
         /\ h \/ o = CHOOSE d \in TransformOptionsSet : TRUE
         /\ call = [fn |-> "get_file_url",
                    arg |-> [api_url |-> u, file_id |-> f, has_options |-> h, options |-> o]]

\* the functions are called with arguments of the bounded sets
PureInit ==
    /\ CallIdle
    /\ SessionInit
    /\ BuildIdle
    /\ result = NoResult
    /\ \/ TransformCalls
       \/ QueryCalls
       \/ SanitizeCalls
       \/ PropertyCalls
       \/ FromDictCalls
       \/ RequestCalls
       \/ ResponseCalls

PureNext ==
    \/ CallToQueryParams
    \/ CallGetFileUrl
    \/ CallBuildQueryParams
    \/ CallSanitizeFilename
    \/ CallFileProperties
    \/ CallFromDict
    \/ CallListFiles
    \/ CallUploadFile
    \/ CallListFilesResponse

PureSpec == PureInit /\ [][PureNext]_vars

(* ---------------------------------------------------------------------- *)
(* Properties of the response classifier                                   *)
(* ---------------------------------------------------------------------- *)

\* the classifier has been applied to a response directly
Classified == pc = "done" /\ client = "classifier"

\* the statuses with an error class of their own
TypedStatuses == {401, 403, 404, 413, 422, 429}

\* the parsed body of the response the call ended with: the JSON document,
\* or for a body that is not JSON the envelope holding its text
ParsedBody ==
    IF response.body.is_json
    THEN response.body.doc
    ELSE [type |-> "dict", literal |-> "",
          items |-> [k \in {"message"} |->
                        IF response.body.text = "" THEN "'Unknown error'"
                        ELSE PyStr(response.body.text)]]

\* C1: for a response with status 401, 403, 404, 413, 422 or 429 and any
\* body, the classifier raises the error class of that status, with the
\* message extracted from the body as its message.
C1_TypedStatusRaisesItsError ==
    (Classified /\ response.status_code \in TypedStatuses) =>
        /\ outcome.kind = "raise"
        /\ outcome.exc =
             (CASE response.status_code = 401 -> "AuthenticationError"
                [] response.status_code = 403 -> "AuthorizationError"
                [] response.status_code = 404 -> "NotFoundError"
                [] response.status_code = 413 -> "FileTooLargeError"
                [] response.status_code = 422 -> "ValidationError"
                [] response.status_code = 429 -> "RateLimitError")
        /\ outcome.fmt = "{error_message}"
        /\ outcome.error_message \in
             {DictGet(ParsedBody.items, "message"), DictGet(ParsedBody.items, "error"),
              "'Unknown error'"}

\* C2: for a response with a status s in 500..599 and any body, the
\* classifier raises ServerError with status_code = s and response_data = the
\* parsed body.
C2_ServerErrorCarriesStatusAndBody ==
    (Classified /\ response.status_code >= 500 /\ response.status_code < 600) =>
        /\ outcome.kind = "raise"
        /\ outcome.exc = "ServerError"
        /\ outcome.status_code = response.status_code
        /\ outcome.response_data = ParsedBody

\* C3: for a response with status 200 the classifier raises nothing and
\* returns the parsed body unchanged, whatever the body is (an object, an
\* array, a string, a number, null, or the envelope of a non-JSON text).
C3_SuccessReturnsParsedBody ==
    (Classified /\ response.status_code = 200) =>
        /\ outcome.kind = "return"
        /\ outcome.value = ParsedBody
        /\ outcome.exc = ""

\* C3 witness: a 200 response whose body is a JSON array has been classified
\* and the array came back
C3_Witness ==
    /\ Classified
    /\ response.status_code = 200
    /\ response.body.is_json
    /\ response.body.doc.type = "list"
    /\ outcome.kind = "return"
    /\ outcome.value.literal = "[1, 2]"

\* C4: for a status that is not 200, not a typed status and not in 500..599
\* the classifier raises the generic DAMError, whose message carries the
\* status and the extracted message; over all statuses the classifier returns
\* or raises one typed error.
C4_OtherStatusRaisesGenericError ==
    /\ (Classified /\ response.status_code # 200
          /\ response.status_code \notin TypedStatuses
          /\ ~(response.status_code >= 500 /\ response.status_code < 600)) =>
            /\ outcome.kind = "raise"
            /\ outcome.exc = "DAMError"
            /\ outcome.fmt = "API error {status_code}: {error_message}"
            /\ outcome.status = response.status_code
    /\ Classified =>
            \/ outcome.kind = "return"
            \/ outcome.kind = "raise" /\ outcome.exc \in DAMErrorKinds

\* C5: for every status other than 200 and every body (empty, non-JSON text,
\* JSON of any shape) the classifier raises an error deriving from DAMError
\* and never another exception.
C5_ExtractionNeverFails ==
    (Classified /\ response.status_code # 200) =>
        /\ outcome.kind = "raise"
        /\ outcome.exc \in DAMErrorKinds

\* the message the preference order of the fields gives when a field counts
\* as soon as the body has it
PresentFieldMessage ==
    LET d == ParsedBody.items
    IN  IF "message" \in DOMAIN d THEN d["message"]
        ELSE IF "error" \in DOMAIN d THEN d["error"]
        ELSE "'Unknown error'"

\* the message the preference order gives when a field counts only when the
\* body has it with a truthy value (not null, not empty, not 0)
TruthyFieldMessage ==
    LET d == ParsedBody.items
    IN  IF "message" \in DOMAIN d /\ Truthy(d["message"]) THEN d["message"]
        ELSE IF "error" \in DOMAIN d /\ Truthy(d["error"]) THEN d["error"]
        ELSE "'Unknown error'"

\* the classifier has raised an SDK error for the response
ClassifiedAsError == Classified /\ outcome.kind = "raise" /\ outcome.exc \in DAMErrorKinds

\* C6 as stated: the extracted message is the body's message field when the
\* body has one, else its error field when it has one, else 'Unknown error'.
C6_PresentFieldIsTheMessage ==
    ClassifiedAsError => outcome.error_message = PresentFieldMessage

\* C6 as amended: the extracted message is the body's message field when the
\* body has one with a truthy value, else its error field when it has one
\* with a truthy value, else 'Unknown error'.
C6_TruthyFieldIsTheMessage ==
    ClassifiedAsError => outcome.error_message = TruthyFieldMessage

\* C6 witness: an error was raised for a body whose message field is empty
\* and whose error field is not, and the message is the error field
C6_Witness ==
    /\ ClassifiedAsError
    /\ response.body.is_json
    /\ DOMAIN response.body.doc.items = {"message", "error"}
    /\ response.body.doc.items["message"] = "''"
    /\ response.body.doc.items["error"] = "'boom'"
    /\ outcome.error_message = "'boom'"

(* ---------------------------------------------------------------------- *)
(* Properties of the two request pipelines                                 *)
(* ---------------------------------------------------------------------- *)

\* a call of the given client has ended on a response
EndedOnResponse(c) == pc = "done" /\ client = c /\ response # NoResponse

\* a call of the given client has ended on a transport exception that was
\* raised to _request
EndedOnTransportError(c) == pc = "done" /\ client = c /\ transport_exc # "None"

\* C7: for every status and body, AsyncDAMClient._request ends with the
\* outcome DAMClient._handle_response gives for that status and body: the same
\* returned value, or the same error class and message.
C7_AsyncClassifiesLikeSync ==
    EndedOnResponse("async") =>
        LET o == HandleResponse(response)
        IN  /\ outcome.kind = o.kind
            /\ outcome.value = o.value
            /\ outcome.exc = o.exc
            /\ outcome.fmt = o.fmt
            /\ outcome.status = o.status
            /\ outcome.error_message = o.error_message

\* the transport exceptions that are a deadline exceeded, and those that are
\* a failure to establish the connection within the deadline's time
DeadlineExceeded == {"requests.ReadTimeout", "requests.ConnectTimeout"}
ConnectionFailed == {"requests.ConnectionError", "requests.SSLError"}

\* C8: in the sync client a transport failure raised to _request is mapped:
\* a connection failure to NetworkError, a deadline exceeded to TimeoutError,
\* any other transport exception to the generic DAMError, each with the
\* transport exception as its cause.
C8_SyncTransportErrorMapping ==
    (EndedOnTransportError("sync") /\ op \in SyncOperations) =>
        /\ outcome.kind = "raise"
        /\ outcome.cause = transport_exc
        /\ outcome.exc =
             (IF transport_exc \in DeadlineExceeded THEN "TimeoutError"
              ELSE IF transport_exc \in ConnectionFailed THEN "NetworkError"
              ELSE "DAMError")

\* C8 witness: list_files ended on a connection failure and raised NetworkError
C8_Witness ==
    /\ EndedOnTransportError("sync")
    /\ op = "list_files"
    /\ transport_exc = "requests.ConnectionError"
    /\ outcome.exc = "NetworkError"
    /\ outcome.cause = "requests.ConnectionError"

\* C9: the async client has the error contract of the sync client: a timeout
\* of the transport raises TimeoutError with a message saying the request
\* timed out, a connection failure NetworkError, another transport error the
\* generic DAMError, and on a status other than 200 the error the classifier
\* chose reaches the caller unchanged.
C9_AsyncErrorContract ==
    /\ EndedOnTransportError("async") =>
        /\ outcome.kind = "raise"
        /\ transport_exc \in {"asyncio.TimeoutError", "aiohttp.ServerTimeoutError"} =>
              /\ outcome.exc = "TimeoutError"
              /\ outcome.fmt = "Request timed out after {timeout} seconds"
        /\ transport_exc \in {"aiohttp.ClientConnectorError",
                              "aiohttp.ServerDisconnectedError"} =>
              outcome.exc = "NetworkError"
        /\ transport_exc = "aiohttp.ClientPayloadError" => outcome.exc = "DAMError"
    /\ (EndedOnResponse("async") /\ response.status_code # 200) =>
        /\ outcome.kind = "raise"
        /\ outcome.exc = ErrorClass(response.status_code)
        /\ outcome.exc \in DAMErrorKinds

\* the sync call ended on a response whose status is of the retry set, with
\* the retry budget used up
EndedOnRetriedStatus ==
    /\ EndedOnResponse("sync")
    /\ op \in SyncOperations
    /\ response.status_code \in RETRY_STATUS_CODES
    /\ OpMethod(op) \in RETRY_METHODS

\* C10: when every attempt of a sync request got a status of the retry set
\* and the budget is used up, the caller gets the classifier's error for the
\* final response (ServerError with the status for 5xx, RateLimitError for
\* 429), never an error about the retrying.
C10_RetriesInvisible ==
    EndedOnRetriedStatus =>
        /\ outcome.kind = "raise"
        /\ outcome.fmt # "Request failed: {e}"
        /\ outcome.cause # "requests.RetryError"
        /\ response.status_code = 429 => outcome.exc = "RateLimitError"
        /\ response.status_code >= 500 =>
              /\ outcome.exc = "ServerError"
              /\ outcome.status_code = response.status_code


(* ---------------------------------------------------------------------- *)
(* C11: what the sync transport re-sends                                   *)
(* ---------------------------------------------------------------------- *)

\* the transport has just sent the request of the sync call once more
Resent == client = "sync" /\ sent >= 1 /\ sent' = sent + 1

\* the response that made the transport re-send had a status of
\* RETRY_STATUS_CODES and the method is one of RETRY_METHODS
ResentOnListedStatus ==
    /\ response'.status_code \in RETRY_STATUS_CODES
    /\ OpMethod(op) \in RETRY_METHODS

\* C11: in the sync client a request is re-sent only when the response status
\* is in {408, 429, 500, 502, 503, 504} and the method is one of GET, POST,
\* PUT, DELETE; a response with any other status is never retried, and one
\* call never sends the request more than 1 + max_retries times.
C11_ResentOnlyOnListedStatus ==
    /\ [][Resent => ResentOnListedStatus]_vars
    /\ [](client = "sync" => sent <= 1 + max_retries)

\* the part of C11 that the transport keeps: the number of requests of one
\* call is bounded by 1 + max_retries
C11_SentBounded == client = "sync" => sent <= 1 + max_retries


(* ---------------------------------------------------------------------- *)
(* C12: every sync operation returns or raises an SDK error                *)
(* ---------------------------------------------------------------------- *)

\* a call of DAMClient has ended
SyncEnded == pc = "done" /\ client = "sync"

\* the typed error of a transport failure
TransportErrorClass(c) ==
    IF c \in DeadlineExceeded THEN "TimeoutError"
    ELSE IF c \in ConnectionFailed THEN "NetworkError"
    ELSE "DAMError"

\* C12: every public operation of the sync client, download_file included,
\* either returns its value or raises an error deriving from DAMError; an
\* error status or a transport failure is never swallowed, never escapes as
\* an exception outside the SDK hierarchy, and is raised as the typed error
\* of that status or failure.
C12_SyncReturnsOrRaisesDAMError ==
    SyncEnded =>
        /\ outcome.kind \in {"return", "raise"}
        /\ outcome.kind = "raise" => outcome.exc \in DAMErrorKinds
        /\ transport_exc # "None" =>
             /\ outcome.kind = "raise"
             /\ outcome.exc = TransportErrorClass(transport_exc)
        /\ (transport_exc = "None" /\ response.status_code >= 400) =>
             /\ outcome.kind = "raise"
             /\ outcome.exc = ErrorClass(response.status_code)

\* C12 for the operations that go through _request and get a body that is
\* a JSON object or not JSON at all
C12_RequestOperationsOnObjectBodies ==
    (SyncEnded /\ op \in SyncOperations /\ response.body.doc.type \in {"", "dict"}) =>
        /\ outcome.kind \in {"return", "raise"}
        /\ outcome.kind = "raise" => outcome.exc \in DAMErrorKinds
        /\ transport_exc # "None" =>
             /\ outcome.kind = "raise"
             /\ outcome.exc = TransportErrorClass(transport_exc)
        /\ (transport_exc = "None" /\ response.status_code >= 400) =>
             /\ outcome.kind = "raise"
             /\ outcome.exc = ErrorClass(response.status_code)

\* download_file ended on a 404 response
C12_DownloadNotFound ==
    /\ SyncEnded
    /\ op = "download_file"
    /\ transport_exc = "None"
    /\ response.status_code = 404


(* ---------------------------------------------------------------------- *)
(* C13, C14, C17: uploads                                                   *)
(* ---------------------------------------------------------------------- *)

\* an upload of either client has ended
UploadEnded == pc = "done" /\ client \in {"sync", "async"} /\ op \in UploadOperations

\* the limit the client of the call checks sizes against
ConfiguredMaximum == IF client = "async" THEN ASYNC_MAX_FILE_SIZE ELSE MAX_FILE_SIZE

\* one of the files given by path is larger than the maximum
SomePathTooLarge ==
    \E i \in DOMAIN files :
        files[i].kind = "path" /\ files[i].exists /\ files[i].size > ConfiguredMaximum

\* every path given names a file
AllPathsExist == \A i \in DOMAIN files : files[i].exists

\* C13: uploading from a filesystem path a file whose size exceeds the
\* maximum (100 MB) raises FileTooLargeError before any request is sent, in
\* sync upload_file, async upload_file, and upload_multiple_files when any one
\* of the listed paths is too large (then no request is sent for any file).
C13_TooLargeRaisesBeforeAnyRequest ==
    (UploadEnded /\ SomePathTooLarge) =>
        /\ sent = 0
        /\ response = NoResponse
        /\ AllPathsExist =>
             /\ outcome.kind = "raise"
             /\ outcome.exc = "FileTooLargeError"

\* C13 witness: upload_multiple_files given a file of 100 MB and a file one
\* byte larger has raised FileTooLargeError without sending a request
C13_Witness ==
    /\ UploadEnded
    /\ client = "sync"
    /\ op = "upload_multiple_files"
    /\ files = <<PathArg(MAX_FILE_SIZE), PathArg(MAX_FILE_SIZE + 1)>>
    /\ outcome.exc = "FileTooLargeError"
    /\ sent = 0

\* the handle was opened by the call and has been closed exactly once
ReleasedOnce(h) == h.owner = "call" => (~h.open /\ h.closes = 1)

\* C14: upload_multiple_files releases every file handle it opened exactly
\* once on every path: when the call has returned or raised, no handle opened
\* by the call is still open and none was closed twice.
C14_OpenedHandlesReleasedOnce ==
    (pc = "done" /\ client = "sync" /\ op = "upload_multiple_files") =>
        \A i \in DOMAIN handles : ReleasedOnce(handles[i])

\* the part of C14 the finally clause keeps: once the request has been sent,
\* every handle the call opened is closed exactly once
C14_ReleasedOnceAfterRequest ==
    (pc = "done" /\ client = "sync" /\ op = "upload_multiple_files" /\ sent > 0) =>
        \A i \in DOMAIN handles : ReleasedOnce(handles[i])

\* C17: async upload_file called with an open byte stream instead of a path
\* raises NotImplementedError and sends no HTTP request.
C17_AsyncStreamUploadNotImplemented ==
    (pc = "done" /\ client = "async" /\ op = "upload_file" /\ files[1].kind = "stream") =>
        /\ outcome.kind = "raise"
        /\ outcome.exc = "NotImplementedError"
        /\ sent = 0
        /\ response = NoResponse

\* C17 witness: async upload_file of a stream has raised NotImplementedError
C17_Witness ==
    /\ pc = "done"
    /\ client = "async"
    /\ op = "upload_file"
    /\ files = <<StreamArg>>
    /\ outcome.exc = "NotImplementedError"
    /\ sent = 0


(* ---------------------------------------------------------------------- *)
(* C15, C16: the session of the async client                               *)
(* ---------------------------------------------------------------------- *)

\* no task has begun
NothingBegun == \A t \in Tasks : task[t].pc = "idle"

\* the task has got a session from _ensure_session
GotSession(t) == task[t].kind \in {"request", "scope"}

\* C15: the async client creates no session at construction and creates it
\* lazily on first use; for any interleaving of concurrent requests on the
\* same client with no close in between, exactly one session is created and
\* all of those requests use that same session.
C15_OneSharedSession ==
    /\ NothingBegun => (session = NoSession /\ created = 0)
    /\ closed = {} =>
         /\ created <= 1
         /\ \A t \in Tasks :
              GotSession(t) =>
                  /\ created = 1
                  /\ task[t].used = 1
                  /\ session = 1

\* C15 witness: the requests of all tasks are in flight together on the one
\* session that was created
C15_Witness ==
    /\ \A t \in Tasks : task[t].pc = "awaiting" /\ task[t].used = 1
    /\ created = 1
    /\ closed = {}

\* no task has begun after task t
LastBegun(t) == IF t = NumTasks THEN TRUE ELSE task[t + 1].pc = "idle"

\* every session that was created has been closed
AllSessionsClosed == \A s \in 1..created : s \in closed

\* the task is inside its async with
InScope(t) == task[t].pc \in {"body", "exiting"}

\* the task has finished the operation
Finished(t, kind) == task[t].kind = kind /\ task[t].pc = "done"

\* close() finds no session: nothing changes
CloseWithoutSession(t) ==
    (task[t].pc = "idle" /\ task'[t].kind = "close" /\ session = NoSession) =>
        /\ task'[t].pc = "done"
        /\ UNCHANGED <<session, created, closed>>

\* C16: inside an async with scope the client's session is not None; after
\* the scope exits, normally or because the body raised, the session has been
\* closed and client.session is None, and an exception raised by the body
\* still propagates. An explicit close() has the same effect and is a no-op
\* when no session exists. (Operations one after the other, none overlapping.)
C16_ScopeAndCloseReleaseSession ==
    /\ [](~overlap =>
            \A t \in Tasks :
                /\ InScope(t) =>
                     /\ session # NoSession
                     /\ session = task[t].used
                     /\ session \notin closed
                /\ Finished(t, "scope") =>
                     /\ task[t].used \in closed
                     /\ task[t].propagated = task[t].raised
                     /\ LastBegun(t) => (session = NoSession /\ AllSessionsClosed)
                /\ Finished(t, "close") =>
                     /\ LastBegun(t) => (session = NoSession /\ AllSessionsClosed))
    /\ [][\A t \in Tasks : CloseWithoutSession(t)]_vars

\* C16 witness: one after the other, a scope whose body raised has exited, a
\* request has created a new session, and close() has closed it
C16_Witness ==
    /\ ~overlap
    /\ Finished(1, "scope") /\ task[1].raised /\ task[1].propagated
    /\ Finished(2, "request") /\ task[2].used = 2
    /\ Finished(3, "close") /\ task[3].used = 2
    /\ session = NoSession
    /\ closed = {1, 2}


(* ---------------------------------------------------------------------- *)
(* C18: the async client does not retry                                    *)
(* ---------------------------------------------------------------------- *)

\* C18: each call of an async client operation (upload_file, list_files,
\* get_file, delete_file) sends at most one HTTP request, whatever status or
\* transport error that request ends with.
C18_AsyncSendsAtMostOneRequest ==
    client = "async" => (op \in AsyncOperations /\ sent <= 1)

\* C18 witness: an async list_files has ended on a 503 response, a status
\* the sync transport would have retried, after one request
C18_Witness ==
    /\ pc = "done"
    /\ client = "async"
    /\ op = "list_files"
    /\ response.status_code = 503
    /\ sent = 1


(* ---------------------------------------------------------------------- *)
(* C19, C20: the request each operation sends                              *)
(* ---------------------------------------------------------------------- *)

\* the interface table: method and path of each operation
InterfaceTable(file_id) ==
    [upload_file           |-> [method |-> "POST",   path |-> <<"/api/public/single">>],
     upload_multiple_files |-> [method |-> "POST",   path |-> <<"/api/public/multiple">>],
     list_files            |-> [method |-> "GET",    path |-> <<"/api/public/files">>],
     get_file              |-> [method |-> "GET",    path |-> <<"/api/public/files/", file_id>>],
     delete_file           |-> [method |-> "DELETE", path |-> <<"/api/public/files/", file_id>>],
     get_dashboard_stats   |-> [method |-> "GET",    path |-> <<"/api/stats/dashboard">>],
     get_storage_stats     |-> [method |-> "GET",    path |-> <<"/api/stats/storage">>],
     batch_delete_files    |-> [method |-> "POST",   path |-> <<"/api/files/bulk-delete">>]]

\* the operations of the interface table
TableOperations == DOMAIN InterfaceTable("")

\* s is the base URL without the slashes it ends with
StrippedOf(s, base) ==
    \E n \in 0..Len(base) :
        /\ s = SubSeq(base, 1, n)
        /\ \A i \in (n + 1)..Len(base) : base[i] = "/"
        /\ IF n = 0 THEN TRUE ELSE base[n] # "/"

\* an operation of the interface table has built its request
TableRequestBuilt == built # NoRequest /\ built.op \in TableOperations

\* C19: each client operation sends its request with the method and path of
\* the interface table, and the request URL is the configured base URL with
\* its trailing slash stripped followed by that path; the async client uses
\* the same method and path for the operations it offers.
C19_MethodAndUrlOfInterfaceTable ==
    TableRequestBuilt =>
        LET row == InterfaceTable(built.file_id)[built.op]
        IN  /\ built.method = row.method
            /\ \E n \in 0..Len(built.url) :
                 /\ StrippedOf(SubSeq(built.url, 1, n), config.given_url)
                 /\ SubSeq(built.url, n + 1, Len(built.url)) = row.path

\* C19 witness: delete_file of an async client constructed with a base URL
\* that ends with a slash has built DELETE h/api/public/files/f1
C19_Witness ==
    /\ config.client = "async"
    /\ config.given_url = <<"h", "/">>
    /\ built.op = "delete_file"
    /\ built.method = "DELETE"
    /\ built.url = <<"h", "/api/public/files/", "f1">>

\* the header is in the request with this value
Carries(headers, name, value) == name \in DOMAIN headers /\ headers[name] = value

\* C20: every HTTP request sent by a client, sync or async and through any
\* operation, carries the headers X-API-Key-ID and X-API-Key-Secret with
\* exactly the values given at client construction, plus the SDK user-agent
\* and Accept: application/json headers.
C20_CredentialAndSdkHeaders ==
    built # NoRequest =>
        /\ Carries(built.headers, "X-API-Key-ID", config.key_id)
        /\ Carries(built.headers, "X-API-Key-Secret", config.key_secret)
        /\ Carries(built.headers, "User-Agent", "DAM-Python-SDK/1.0.0")
        /\ Carries(built.headers, "Accept", "application/json")

\* C20 witness: download_file of a sync client constructed with key-2 and
\* secret-1 has built its request with those credentials
C20_Witness ==
    /\ config.client = "sync"
    /\ config.key_id = "key-2"
    /\ config.key_secret = "secret-1"
    /\ built.op = "download_file"
    /\ Carries(built.headers, "X-API-Key-ID", "key-2")
    /\ Carries(built.headers, "X-API-Key-Secret", "secret-1")


(* ---------------------------------------------------------------------- *)
(* C21: transform options as a query string                                *)
(* ---------------------------------------------------------------------- *)

\* the query key of each field of TransformOptions, and the numeric fields
TransformKey ==
    [width |-> "w", height |-> "h", fit |-> "fit", format |-> "format",
     quality |-> "quality", blur |-> "blur", grayscale |-> "grayscale", rotate |-> "rotate"]
TransformFields == DOMAIN TransformKey
NumericFields == {"width", "height", "quality", "blur", "rotate"}

\* the pairs d are those the claim gives for the options o
TransformPairsOf(d, o) ==
    /\ Cardinality(Keys(d)) = Len(d)
    /\ Keys(d) \subseteq {TransformKey[f] : f \in TransformFields}
    /\ \A f \in TransformFields :
         /\ TransformKey[f] \in Keys(d) <=> ValTruthy(o[f])
         /\ TransformKey[f] \in Keys(d) =>
              ValueOf(d, TransformKey[f]) =
                  (IF f = "grayscale" THEN StrVal("true")
                   ELSE IF f \in NumericFields THEN StrVal(o[f].text)
                   ELSE o[f])

\* the pairs written as a query string
QueryStringOf(d) ==
    IF d = << >> THEN ""
    ELSE "?" \o Join([i \in DOMAIN d |-> d[i].key \o "=" \o d[i].value.text], "&")

\* C21: to_query_params emits only the keys w, h, fit, format, quality, blur,
\* grayscale, rotate; grayscale only when true and then as 'true'; each
\* numeric field emitted is the decimal string of its value; every field that
\* is absent or falsy is omitted. get_file_url appends exactly these pairs as
\* the query string of /api/transform/{id} on the base URL and sends no request.
C21_TransformQuery ==
    /\ Called("to_query_params") => TransformPairsOf(result.value, call.arg)
    /\ Called("get_file_url") =>
         /\ sent = 0
         /\ \E d \in {ToQueryParams(call.arg.options)} :
              /\ TransformPairsOf(d, call.arg.options)
              /\ result.value = call.arg.api_url \o "/api/transform/" \o call.arg.file_id
                                  \o (IF call.arg.has_options THEN QueryStringOf(d) ELSE "")

\* C21 witness: get_file_url with width 100, quality 0, grayscale and a
\* rotation of -90 has returned the URL with exactly those pairs
C21_Witness ==
    /\ Called("get_file_url")
    /\ call.arg.has_options
    /\ call.arg.options.quality = IntVal("0")
    /\ result.value = "http://h/api/transform/f1?w=100&fit=cover&grayscale=true&rotate=-90"


(* ---------------------------------------------------------------------- *)
(* C22: build_query_params                                                 *)
(* ---------------------------------------------------------------------- *)

\* the items of the dict whose value is not None, in the input order
NotNoneItems(d) == SelectSeq(d, LAMBDA it : it.value # NoneVal)

\* the dict of the example: {limit: 10, offset: 0, folder_id: None}
ExampleParams ==
    <<Item("limit", IntVal("10")), Item("offset", IntVal("0")), Item("folder_id", NoneVal)>>

\* C22: build_query_params omits every key whose value is None and keeps
\* every other key, 0 and False included, as key=value in the input order,
\* joined by '&' after a leading '?'; it returns '' when no key remains; the
\* example dict gives '?limit=10&offset=0'.
C22_BuildQueryParams ==
    Called("build_query_params") =>
        LET kept == NotNoneItems(call.arg)
        IN  /\ result.kind = "return"
            /\ kept = << >> => result.value = ""
            /\ kept # << >> =>
                 result.value =
                     "?" \o Join([i \in DOMAIN kept |->
                                     kept[i].key \o "=" \o QueryValue(kept[i].value)], "&")
            /\ call.arg = ExampleParams => result.value = "?limit=10&offset=0"

\* C22 witness: the example dict has been written as '?limit=10&offset=0'
C22_Witness ==
    /\ Called("build_query_params")
    /\ call.arg = ExampleParams
    /\ result.value = "?limit=10&offset=0"


(* ---------------------------------------------------------------------- *)
(* C23: sanitize_filename                                                  *)
(* ---------------------------------------------------------------------- *)

Disallowed == {"<", ">", ":", "\"", "/", "\\", "|", "?", "*"}

\* the name is one of the components of the path, or empty, and holds no slash
FinalComponentOf(name, path) ==
    /\ \A i \in DOMAIN name : name[i] # "/"
    /\ \/ name = << >>
       \/ \E k \in DOMAIN Components(path) : Components(path)[k] = name

\* C23: sanitize_filename strips all directory components and replaces each
\* occurrence of each disallowed character with one '_', leaving every other
\* character and the length of the final path component unchanged;
\* '/a/b/file<>:.jpg' gives 'file___.jpg'; the result holds no disallowed
\* character, and sanitizing a sanitized name returns it unchanged.
C23_SanitizeFilename ==
    Called("sanitize_filename") =>
        LET name == PathName(call.arg)
            r    == result.value
        IN  /\ result.kind = "return"
            /\ FinalComponentOf(name, call.arg)
            /\ Len(r) = Len(name)
            /\ \A i \in DOMAIN r :
                 r[i] = (IF name[i] \in Disallowed THEN "_" ELSE name[i])
            /\ \A i \in DOMAIN r : r[i] \notin Disallowed
            /\ SanitizeFilename(r) = r
            /\ call.arg = ExampleName => r = <<"file", "_", "_", "_", ".", "jpg">>

\* C23 witness: '/a/b/file<>:.jpg' has been sanitized to 'file___.jpg'
C23_Witness ==
    /\ Called("sanitize_filename")
    /\ call.arg = ExampleName
    /\ result.value = <<"file", "_", "_", "_", ".", "jpg">>


(* ---------------------------------------------------------------------- *)
(* C24: is_image, is_video, is_document                                    *)
(* ---------------------------------------------------------------------- *)

ImageOnly == [is_image |-> TRUE, is_video |-> FALSE, is_document |-> FALSE]
VideoOnly == [is_image |-> FALSE, is_video |-> TRUE, is_document |-> FALSE]
DocumentOnly == [is_image |-> FALSE, is_video |-> FALSE, is_document |-> TRUE]
NoKind == [is_image |-> FALSE, is_video |-> FALSE, is_document |-> FALSE]

\* C24: is_image, is_video and is_document of a File depend only on its
\* mime_type, and at most one of the three is true; 'image/jpeg' is image
\* only, 'video/mp4' is video only, 'application/pdf' is document only.
C24_FileKindByMimeType ==
    Called("file_properties") =>
        /\ result.value \in {ImageOnly, VideoOnly, DocumentOnly, NoKind}
        /\ \A g \in FileObjects :
             g.mime_type = call.arg.mime_type => FileProperties(g) = result.value
        /\ call.arg.mime_type = <<"image", "/", "jpeg">> => result.value = ImageOnly
        /\ call.arg.mime_type = <<"video", "/", "mp4">> => result.value = VideoOnly
        /\ call.arg.mime_type = <<"application", "/", "pdf">> => result.value = DocumentOnly

\* C24 witness: the properties of an 'application/pdf' file have been read
\* and it is a document only
C24_Witness ==
    /\ Called("file_properties")
    /\ call.arg.mime_type = <<"application", "/", "pdf">>
    /\ result.value = DocumentOnly


(* ---------------------------------------------------------------------- *)
(* C25, C30: from_dict                                                     *)
(* ---------------------------------------------------------------------- *)

TimestampKeys == {"created_at", "updated_at"}

\* the ISO-8601 timestamp strings among the values of the model
IsoTimestamps ==
    {Text(<<"2024-01-01T00:00:00", "Z">>), Text(<<"2024-01-01T00:00:00", "+00:00">>),
     Text(<<"2024-01-01T00:00:00">>)}

\* the payload has a value for the key, and it is not an ISO-8601 timestamp
\* string; a null counts as no value
Malformed(data, key) ==
    /\ data[key].type \notin {"absent", "NoneType"}
    /\ data[key] \notin IsoTimestamps

\* C25: from_dict never silently defaults a malformed timestamp: when
\* created_at or updated_at is present and is not a valid ISO-8601 timestamp
\* string, construction fails instead of returning a record whose timestamp
\* is None or the raw value; an absent timestamp is valid and yields None.
C25_MalformedTimestampFails ==
    Called("from_dict") =>
        \A k \in TimestampKeys :
            /\ Malformed(call.arg, k) => result.kind = "raise"
            /\ (call.arg[k].type = "absent" /\ result.kind = "return") =>
                   result.value[k] = Null

\* a malformed timestamp came back as the raw value in the record
C25_RawValueReturned ==
    /\ Called("from_dict")
    /\ result.kind = "return"
    /\ \E k \in TimestampKeys : Malformed(call.arg, k) /\ result.value[k] = call.arg[k]

\* C30: from_dict leaves its input payload unchanged: after the call the
\* dict passed in has the same keys and values as before, the original
\* timestamp strings included.
C30_PayloadUnchanged ==
    Called("from_dict") => result.arg = call.arg


(* ---------------------------------------------------------------------- *)
(* C26: the async client builds the request of the sync client             *)
(* ---------------------------------------------------------------------- *)

\* the parameters that are sent: the items whose value is not None
SentItems(d) == {d[i] : i \in {j \in DOMAIN d : d[j].value # NoneVal}}

\* C26: for the same arguments the async client builds the same request as
\* the sync client: async list_files sends the same set of query parameters
\* as sync list_files for any SearchOptions, and async upload_file from a path
\* sends the same form fields as sync upload_file for any UploadOptions.
C26_AsyncBuildsSyncRequest ==
    /\ (Called("list_files") /\ call.client = "async") =>
           SentItems(result.value) = SentItems(ListFilesParams(call.arg))
    /\ (Called("upload_file") /\ call.client = "async") =>
           SentItems(result.value) = SentItems(BuildUploadData(call.arg))


(* ---------------------------------------------------------------------- *)
(* C27: list_files maps its response                                       *)
(* ---------------------------------------------------------------------- *)

\* every element of the data array is a payload a File can be made from
WellFormedData(body) ==
    \A i \in DOMAIN body.data : \A k \in TimestampKeys : ~Malformed(body.data[i], k)

\* C27: on a 200 response list_files, sync and async, returns a
\* FileListResponse whose data holds one File per element of the response's
\* data array, in the same order and with the same ids, whose success is the
\* response's success flag (False when absent) and whose pagination is the
\* response's pagination object unchanged (empty when absent).
C27_ListFilesMapsResponse ==
    Called("list_files_response") =>
        /\ WellFormedData(call.arg) => result.kind = "return"
        /\ result.kind = "return" =>
             /\ Len(result.value.data) = Len(call.arg.data)
             /\ \A i \in DOMAIN call.arg.data :
                  /\ result.value.data[i].cls = "File"
                  /\ result.value.data[i].id = call.arg.data[i].id
             /\ result.value.success =
                    (IF call.arg.success = Absent THEN Bool("False") ELSE call.arg.success)
             /\ result.value.pagination =
                    (IF call.arg.pagination = Absent THEN Object(<< >>)
                     ELSE call.arg.pagination)

\* C27 witness: a response with the files f1 and f2 in this order, without a
\* success flag or a pagination object, has been mapped
C27_Witness ==
    /\ Called("list_files_response")
    /\ result.kind = "return"
    /\ Len(call.arg.data) = 2
    /\ call.arg.data[1].id = "f1" /\ call.arg.data[2].id = "f2"
    /\ result.value.data[1].id = "f1" /\ result.value.data[2].id = "f2"
    /\ call.arg.success = Absent /\ result.value.success = Bool("False")
    /\ call.arg.pagination = Absent /\ result.value.pagination = Object(<< >>)


(* ---------------------------------------------------------------------- *)
(* C28: no session is leaked                                               *)
(* ---------------------------------------------------------------------- *)

\* no call on the client is in progress
NoCallInProgress == \A t \in Tasks : ~UnderWay(t)

\* C28: for any interleaving of concurrent request and close() calls on one
\* AsyncDAMClient no session is leaked: whenever client.session is None and
\* no call is in progress, every session the client ever created has been
\* closed.
C28_NoSessionLeaked ==
    (session = NoSession /\ NoCallInProgress) => AllSessionsClosed


(* ---------------------------------------------------------------------- *)
(* C29: the caller's streams                                               *)
(* ---------------------------------------------------------------------- *)

\* C29: upload_multiple_files closes only the file handles it opened itself
\* from path arguments: every already-open stream supplied by the caller in
\* the list is still open when the call returns or raises.
C29_CallerStreamsStayOpen ==
    (pc = "done" /\ client = "sync" /\ op = "upload_multiple_files") =>
        \A i \in DOMAIN handles :
            handles[i].owner = "caller" =>
                handles[i].open /\ handles[i].closes = 0

====
